---- MODULE Spec2Model ----
(***************************************************************************)
(* Model of the agentgov scanner: the detection-and-risk pipeline of       *)
(* scanLocal (file pass, confidence aggregation, dependency/env fold-in,   *)
(* ownership enrichment, risk evaluation) and the scan() entry point.      *)
(*                                                                         *)
(* Conventions                                                             *)
(*  - Confidence values are integers in thousandths (0.3 is 300, 1.0 is    *)
(*    1000), so that half of a dependency weight (0.25 * 0.5 = 0.125) is   *)
(*    exact.                                                               *)
(*  - Texts are TLA+ strings; Len, \o and SubSeq act on them as on the     *)
(*    JavaScript strings they stand for.                                   *)
(*  - The outcome of RegExp.exec on a source line is an input: a source    *)
(*    line is the set of its hits, one [pattern, text] per pattern source  *)
(*    whose expression matches the line, text being match[0].              *)
(*  - The id and the display name of an AgentRecord are not modelled.      *)
(*  - The scan root holds no .gitignore and the call gives no              *)
(*    excludePatterns: the ignore filter holds SKIP_DIRECTORIES only.      *)
(*  - JSON.parse of a package.json is an input: the file is given by its   *)
(*    parse outcome (failure, or the two dependency objects).              *)
(*  - The pattern registry holds four of the fourteen pattern sets of      *)
(*    ALL_PATTERNS, each with its full pattern lists.                      *)
(***************************************************************************)
EXTENDS Integers, Sequences, FiniteSets, TLC

\* ------------------------------------------------------------------ bounds
\* largest number of files in the scanned tree
MaxTree == 3

\* ------------------------------------------------------- program constants
MAX_FILE_SIZE == 1000000
MATCH_MAX_LEN == 200
DEFAULT_MAX_FILES == 10000
REPORT == 400
CONFIG_CONFIDENCE == 700
CORROBORATION_BONUS == 100
ENV_BOOST == 50
ONE == 1000
BLAME_MAX_COUNT == 50
SPRAWL_MIN == 4
HIGH_COUNT == 20

\* ------------------------------------------------------------ string tools
RECURSIVE Rep(_, _)
Rep(c, n) ==
  IF n <= 0 THEN ""
  ELSE LET h == Rep(c, n \div 2)
       IN IF n % 2 = 0 THEN h \o h ELSE h \o h \o c

CharAt(s, i) == SubSeq(s, i, i)

\* String.prototype.includes / an unanchored literal search
Contains(s, sub) ==
  \E i \in 1..(Len(s) - Len(sub) + 1) : SubSeq(s, i, i + Len(sub) - 1) = sub

\* String.prototype.startsWith and endsWith
StartsWith(s, p) == Len(s) >= Len(p) /\ SubSeq(s, 1, Len(p)) = p

EndsWith(s, p) == Len(s) >= Len(p) /\ SubSeq(s, Len(s) - Len(p) + 1, Len(s)) = p

IsSpace(c) == c \in {" ", "\t", "\n", "\r"}

\* String.prototype.trim
Trim(s) ==
  LET keep == {i \in 1..Len(s) : ~IsSpace(CharAt(s, i))}
  IN IF keep = {} THEN ""
     ELSE LET a == CHOOSE i \in keep : \A j \in keep : i <= j
              b == CHOOSE i \in keep : \A j \in keep : i >= j
          IN SubSeq(s, a, b)

UpperChars == "ABCDEFGHIJKLMNOPQRSTUVWXYZ"
LowerChars == "abcdefghijklmnopqrstuvwxyz"

UpperSet == {CharAt(UpperChars, k) : k \in 1..26}

LowerMap ==
  [c \in UpperSet |-> CharAt(LowerChars, CHOOSE k \in 1..26 : CharAt(UpperChars, k) = c)]

LowerChar(c) == IF c \in UpperSet THEN LowerMap[c] ELSE c

\* String.prototype.toLowerCase
RECURSIVE ToLowerRange(_, _, _)
ToLowerRange(s, a, b) ==
  IF a > b THEN ""
  ELSE IF a = b THEN LowerChar(CharAt(s, a))
  ELSE LET m == (a + b) \div 2
       IN ToLowerRange(s, a, m) \o ToLowerRange(s, m + 1, b)

ToLowerCase(s) == ToLowerRange(s, 1, Len(s))

\* s.split(/[...]/)[0] and s.split("\n"): the piece before the first
\* character of seps, and the list of pieces
FirstPiece(s, seps) ==
  LET hit == {i \in 1..Len(s) : CharAt(s, i) \in seps}
  IN IF hit = {} THEN s
     ELSE SubSeq(s, 1, (CHOOSE i \in hit : \A j \in hit : i <= j) - 1)

RECURSIVE Split(_, _)
Split(s, sep) ==
  LET hit == {i \in 1..Len(s) : CharAt(s, i) = sep}
  IN IF hit = {} THEN <<s>>
     ELSE LET p == CHOOSE i \in hit : \A j \in hit : i <= j
          IN <<SubSeq(s, 1, p - 1)>> \o Split(SubSeq(s, p + 1, Len(s)), sep)

\* path.basename and path.extname
Basename(p) ==
  LET hit == {i \in 1..Len(p) : CharAt(p, i) = "/"}
  IN IF hit = {} THEN p
     ELSE SubSeq(p, (CHOOSE i \in hit : \A j \in hit : i >= j) + 1, Len(p))

Extname(p) ==
  LET b == Basename(p)
      hit == {i \in 2..Len(b) : CharAt(b, i) = "."}
  IN IF hit = {} THEN ""
     ELSE SubSeq(b, CHOOSE i \in hit : \A j \in hit : i >= j, Len(b))

\* truncate(str, maxLen) of the file analyzer
truncate(str, maxLen) ==
  IF Len(str) > maxLen THEN SubSeq(str, 1, maxLen) \o "..." ELSE str

\* str.slice(0, n)
Slice0(str, n) == IF Len(str) > n THEN SubSeq(str, 1, n) ELSE str

\* ------------------------------------------------------- sequence helpers
Range(s) == {s[i] : i \in 1..Len(s)}

RECURSIVE SelectSeqBy(_, _)
SelectSeqBy(s, keep) ==
  IF s = <<>> THEN <<>>
  ELSE (IF Head(s) \in keep THEN <<Head(s)>> ELSE <<>>) \o SelectSeqBy(Tail(s), keep)

RECURSIVE Flatten(_)
Flatten(ss) == IF ss = <<>> THEN <<>> ELSE Head(ss) \o Flatten(Tail(ss))

RECURSIVE SumContribution(_)
SumContribution(ev) ==
  IF ev = <<>> THEN 0 ELSE Head(ev).confidenceContribution + SumContribution(Tail(ev))

Min(a, b) == IF a <= b THEN a ELSE b

\* --------------------------------------------------------- pattern registry
PatternDef(src, ty, conf) == [pattern |-> src, type |-> ty, confidence |-> conf]

langchainPatterns ==
  [framework |-> "langchain", displayName |-> "LangChain",
   languages |-> {"python"},
   imports |-> <<PatternDef("from\\s+langchain[._\\s]", "import", 300),
                 PatternDef("import\\s+langchain", "import", 300),
                 PatternDef("from\\s+langchain_core", "import", 300),
                 PatternDef("from\\s+langchain_openai", "import", 300),
                 PatternDef("from\\s+langchain_anthropic", "import", 300),
                 PatternDef("from\\s+langchain_community", "import", 300)>>,
   instantiations |-> <<PatternDef("AgentExecutor\\s*\\(", "instantiation", 300),
                        PatternDef("create_react_agent\\s*\\(", "instantiation", 300),
                        PatternDef("create_openai_functions_agent\\s*\\(", "instantiation", 300),
                        PatternDef("initialize_agent\\s*\\(", "instantiation", 300),
                        PatternDef("create_tool_calling_agent\\s*\\(", "instantiation", 300)>>,
   configFiles |-> <<>>,
   dependencies |-> <<"langchain", "langchain-core", "langchain-openai",
                      "langchain-anthropic", "langchain-community">>]

crewaiPatterns ==
  [framework |-> "crewai", displayName |-> "CrewAI",
   languages |-> {"python"},
   imports |-> <<PatternDef("from\\s+crewai\\s+import", "import", 300),
                 PatternDef("import\\s+crewai", "import", 300),
                 PatternDef("from\\s+crewai_tools", "import", 250),
                 PatternDef("from\\s+crewai\\.project\\s+import", "import", 300)>>,
   instantiations |-> <<PatternDef("Crew\\s*\\(", "instantiation", 300),
                        PatternDef("@CrewBase", "instantiation", 300),
                        PatternDef("@agent\\b", "code_pattern", 150),
                        PatternDef("@task\\b", "code_pattern", 150)>>,
   configFiles |-> <<"crewai.yaml", "crewai.yml">>,
   dependencies |-> <<"crewai", "crewai-tools">>]

langchainJsPatterns ==
  [framework |-> "langchain", displayName |-> "LangChain.js",
   languages |-> {"typescript", "javascript"},
   imports |-> <<PatternDef("from\\s+[\"']langchain", "import", 300),
                 PatternDef("from\\s+[\"']@langchain\\/", "import", 300),
                 PatternDef("require\\s*\\(\\s*[\"']langchain", "import", 300)>>,
   instantiations |-> <<PatternDef("new\\s+AgentExecutor\\s*\\(", "instantiation", 300),
                        PatternDef("createReactAgent\\s*\\(", "instantiation", 300),
                        PatternDef("createOpenAIFunctionsAgent\\s*\\(", "instantiation", 300),
                        PatternDef("initializeAgent\\s*\\(", "instantiation", 300)>>,
   configFiles |-> <<>>,
   dependencies |-> <<"langchain", "@langchain/core", "@langchain/openai",
                      "@langchain/anthropic", "@langchain/community">>]

openaiSdkJsPatterns ==
  [framework |-> "openai-assistants", displayName |-> "OpenAI SDK",
   languages |-> {"typescript", "javascript"},
   imports |-> <<PatternDef("from\\s+[\"']openai[\"']", "import", 200),
                 PatternDef("require\\s*\\(\\s*[\"']openai[\"']\\s*\\)", "import", 200)>>,
   instantiations |-> <<PatternDef("new\\s+OpenAI\\s*\\(", "instantiation", 150),
                        PatternDef("chat\\.completions\\.create", "instantiation", 150),
                        PatternDef("\\.beta\\.assistants", "instantiation", 300),
                        PatternDef("tools\\s*:\\s*\\[", "code_pattern", 100)>>,
   configFiles |-> <<>>,
   dependencies |-> <<"openai">>]

ALL_PATTERNS ==
  <<langchainPatterns, crewaiPatterns, langchainJsPatterns, openaiSdkJsPatterns>>

getPatternsForLanguage(language) ==
  SelectSeq(ALL_PATTERNS, LAMBDA p : language \in p.languages)

RECURSIVE Dedup(_)
Dedup(s) ==
  IF s = <<>> THEN <<>>
  ELSE LET r == Dedup(SubSeq(s, 1, Len(s) - 1))
           x == s[Len(s)]
       IN IF x \in Range(r) THEN r ELSE Append(r, x)

getAgentConfigFileNames ==
  Dedup(Flatten([i \in 1..Len(ALL_PATTERNS) |-> ALL_PATTERNS[i].configFiles])
        \o <<"agents.yaml", "agents.yml", "agent.json", "agent_config.json",
             "agent_config.yaml">>)

LanguageExtensionKeys == {".py", ".pyw", ".ts", ".tsx", ".js", ".jsx", ".mjs", ".cjs"}

LANGUAGE_EXTENSIONS ==
  [e \in LanguageExtensionKeys |->
     IF e \in {".py", ".pyw"} THEN "python"
     ELSE IF e \in {".ts", ".tsx"} THEN "typescript" ELSE "javascript"]

\* the names the ignore filter always holds
SKIP_DIRECTORIES ==
  {"node_modules", "__pycache__", ".git", ".svn", ".hg", "dist", "build",
   ".next", ".nuxt", "venv", ".venv", "env", ".env", ".tox", ".mypy_cache",
   ".pytest_cache", "coverage", ".coverage", "htmlcov", ".eggs", "*.egg-info",
   ".terraform"}

DEPENDENCY_FILES ==
  <<"requirements.txt", "pyproject.toml", "setup.py", "setup.cfg", "Pipfile",
    "package.json">>

DepMapping(n, fw, conf, lang) ==
  [name |-> n, framework |-> fw, confidence |-> conf, language |-> lang]

DEPENDENCY_MAPPINGS ==
  <<DepMapping("langchain", "langchain", 300, "python"),
    DepMapping("langchain-core", "langchain", 300, "python"),
    DepMapping("langchain-openai", "langchain", 300, "python"),
    DepMapping("langchain-anthropic", "langchain", 300, "python"),
    DepMapping("langchain-community", "langchain", 300, "python"),
    DepMapping("langgraph", "langgraph", 300, "python"),
    DepMapping("langgraph-checkpoint", "langgraph", 250, "python"),
    DepMapping("crewai", "crewai", 300, "python"),
    DepMapping("crewai-tools", "crewai", 250, "python"),
    DepMapping("autogen", "autogen", 300, "python"),
    DepMapping("pyautogen", "autogen", 300, "python"),
    DepMapping("ag2", "autogen", 300, "python"),
    DepMapping("autogen-agentchat", "autogen", 300, "python"),
    DepMapping("semantic-kernel", "semantic-kernel", 300, "python"),
    DepMapping("haystack-ai", "haystack", 300, "python"),
    DepMapping("haystack", "haystack", 250, "python"),
    DepMapping("llama-index", "llamaindex", 250, "python"),
    DepMapping("llama-index-core", "llamaindex", 250, "python"),
    DepMapping("openai", "openai-assistants", 150, "any"),
    DepMapping("anthropic", "anthropic-claude", 150, "any"),
    DepMapping("claude-agent-sdk", "anthropic-claude", 350, "python"),
    DepMapping("vertexai", "google-vertex", 200, "python"),
    DepMapping("langchain-google-vertexai", "google-vertex", 250, "python"),
    DepMapping("@langchain/core", "langchain", 300, "typescript"),
    DepMapping("@langchain/openai", "langchain", 300, "typescript"),
    DepMapping("@langchain/anthropic", "langchain", 300, "typescript"),
    DepMapping("@langchain/community", "langchain", 300, "typescript"),
    DepMapping("ai", "vercel-ai", 200, "typescript"),
    DepMapping("@ai-sdk/openai", "vercel-ai", 250, "typescript"),
    DepMapping("@ai-sdk/anthropic", "vercel-ai", 250, "typescript"),
    DepMapping("@ai-sdk/google", "vercel-ai", 250, "typescript")>>

\* An environment pattern /NAME\s*=/ is [name, eq |-> TRUE]; /AWS_BEDROCK/ has
\* no "=" part.  source is RegExp.source.
EnvPattern(n, e, src, prov, conf) ==
  [name |-> n, eq |-> e, source |-> src, provider |-> prov, confidence |-> conf]

ENV_VAR_PATTERNS ==
  <<EnvPattern("OPENAI_API_KEY", TRUE, "OPENAI_API_KEY\\s*=", "openai", 100),
    EnvPattern("ANTHROPIC_API_KEY", TRUE, "ANTHROPIC_API_KEY\\s*=", "anthropic", 100),
    EnvPattern("AZURE_OPENAI_API_KEY", TRUE, "AZURE_OPENAI_API_KEY\\s*=", "azure-openai", 100),
    EnvPattern("AZURE_OPENAI_ENDPOINT", TRUE, "AZURE_OPENAI_ENDPOINT\\s*=", "azure-openai", 100),
    EnvPattern("GOOGLE_API_KEY", TRUE, "GOOGLE_API_KEY\\s*=", "google", 50),
    EnvPattern("GEMINI_API_KEY", TRUE, "GEMINI_API_KEY\\s*=", "google", 100),
    EnvPattern("AWS_BEDROCK", FALSE, "AWS_BEDROCK", "aws-bedrock", 100),
    EnvPattern("HUGGINGFACE_API_KEY", TRUE, "HUGGINGFACE_API_KEY\\s*=", "huggingface", 50),
    EnvPattern("COHERE_API_KEY", TRUE, "COHERE_API_KEY\\s*=", "cohere", 50),
    EnvPattern("OPENROUTER_API_KEY", TRUE, "OPENROUTER_API_KEY\\s*=", "openrouter", 100)>>

\* ----------------------------------------------------------- file analyzer
Evidence(ty, pat, text, path, ln, conf) ==
  [type |-> ty, pattern |-> pat, matchedText |-> text, filePath |-> path,
   line |-> ln, confidenceContribution |-> conf]

detectLanguage(filePath) ==
  LET ext == ToLowerCase(Extname(filePath))
  IN IF ext \in LanguageExtensionKeys THEN LANGUAGE_EXTENSIONS[ext] ELSE "unknown"

\* patternDef.pattern.exec(line): the match array, or <<>> for null
Exec(patternDef, line) ==
  LET hit == {h \in line : h.pattern = patternDef.pattern}
  IN IF hit = {} THEN <<>> ELSE <<(CHOOSE h \in hit : TRUE).text>>

\* the inner loop of matchPatterns for one pattern definition
MatchOne(lines, filePath, patternDef) ==
  LET hit == {i \in 1..Len(lines) : Exec(patternDef, lines[i]) # <<>>}
  IN IF hit = {} THEN <<>>
     ELSE LET i == CHOOSE k \in hit : \A j \in hit : k <= j
          IN <<Evidence(patternDef.type, patternDef.pattern,
                        truncate(Exec(patternDef, lines[i])[1], MATCH_MAX_LEN),
                        filePath, i, patternDef.confidence)>>

matchPatterns(lines, filePath, frameworkPatterns) ==
  LET allPatternDefs == frameworkPatterns.imports \o frameworkPatterns.instantiations
  IN Flatten([k \in 1..Len(allPatternDefs) |->
                MatchOne(lines, filePath, allPatternDefs[k])])

\* calculateConfidence that adds the bonus for any non-empty list
calculateConfidence_BonusAlways(evidence) ==
  IF Len(evidence) = 0 THEN 0
  ELSE LET total == SumContribution(evidence) + CORROBORATION_BONUS
       IN Min(ONE, ((total + 5) \div 10) * 10)

calculateConfidence(evidence) ==
  IF Len(evidence) = 0 THEN 0
  ELSE LET typesSeen == {evidence[i].type : i \in 1..Len(evidence)}
           total == SumContribution(evidence)
                    + (IF Cardinality(typesSeen) >= 2 THEN CORROBORATION_BONUS ELSE 0)
       IN Min(ONE, ((total + 5) \div 10) * 10)

\* merge of two pattern sets of the same framework
MergePatterns(existing, p) ==
  [existing EXCEPT !.imports = existing.imports \o p.imports,
                   !.instantiations = existing.instantiations \o p.instantiations,
                   !.configFiles = existing.configFiles \o p.configFiles,
                   !.dependencies = existing.dependencies \o p.dependencies]

RECURSIVE deduplicatePatterns(_)
deduplicatePatterns(patterns) ==
  IF patterns = <<>> THEN <<>>
  ELSE LET seen == deduplicatePatterns(SubSeq(patterns, 1, Len(patterns) - 1))
           p == patterns[Len(patterns)]
           at == {i \in 1..Len(seen) : seen[i].framework = p.framework}
       IN IF at = {} THEN Append(seen, p)
          ELSE LET i == CHOOSE k \in at : TRUE
               IN [seen EXCEPT ![i] = MergePatterns(seen[i], p)]

Detections(lines, filePath, uniquePatterns) ==
  LET one(fp) ==
        LET evidence == matchPatterns(lines, filePath, fp)
        IN IF Len(evidence) > 0
           THEN <<[framework |-> fp.framework, displayName |-> fp.displayName,
                   evidence |-> evidence,
                   totalConfidence |-> calculateConfidence(evidence)]>>
           ELSE <<>>
  IN Flatten([k \in 1..Len(uniquePatterns) |-> one(uniquePatterns[k])])

analyzeContent(lines, filePath, language) ==
  IF language = "unknown"
  THEN [filePath |-> filePath, language |-> language, detections |-> <<>>]
  ELSE LET patterns == getPatternsForLanguage(language)
           allPatterns ==
             IF language = "typescript"
             THEN patterns \o getPatternsForLanguage("javascript")
             ELSE IF language = "javascript"
                  THEN patterns \o getPatternsForLanguage("typescript")
                  ELSE patterns
           uniquePatterns == deduplicatePatterns(allPatterns)
       IN [filePath |-> filePath, language |-> language,
           detections |-> Detections(lines, filePath, uniquePatterns)]

\* analyzeFile: analyzeContent after a readFile that may fail
\* analyzeFile that takes the content of a file it could not read
analyzeFile_IgnoresReadFailure(file) ==
  analyzeContent(file.lines, file.path, detectLanguage(file.path))

analyzeFile(file) ==
  LET language == detectLanguage(file.path)
  IN IF language = "unknown" \/ ~file.readOk
     THEN [filePath |-> file.path, language |-> language, detections |-> <<>>]
     ELSE analyzeContent(file.lines, file.path, language)

\* ------------------------------------------- dependency and env analyzers
ReqSeparators == {">", "=", "<", "!", "[", "#", ";"}

FindMapping(n, langs) ==
  LET at == {i \in 1..Len(DEPENDENCY_MAPPINGS) :
               DEPENDENCY_MAPPINGS[i].name = n /\ DEPENDENCY_MAPPINGS[i].language \in langs}
  IN IF at = {} THEN <<>>
     ELSE <<DEPENDENCY_MAPPINGS[CHOOSE i \in at : \A j \in at : i <= j]>>

AllLanguages == {"python", "typescript", "javascript", "any"}

\* one line of requirements.txt / Pipfile
RequirementLine(line, filePath) ==
  LET cleanLine == Trim(FirstPiece(ToLowerCase(Trim(line)), ReqSeparators))
      match == FindMapping(cleanLine, {"python", "any"})
  IN IF match = <<>> THEN <<>>
     ELSE <<Evidence("dependency", match[1].name, Slice0(Trim(line), MATCH_MAX_LEN),
                     filePath, 0, match[1].confidence)>>

\* { ...pkg.dependencies, ...pkg.devDependencies } as a list of entries in
\* key order; a key present in both keeps its place and takes the later value
ObjectSpread(a, b) ==
  LET bNames == {b[i].name : i \in 1..Len(b)}
      aNames == {a[i].name : i \in 1..Len(a)}
      valueIn(n) == b[CHOOSE i \in 1..Len(b) : b[i].name = n].version
      first == [i \in 1..Len(a) |->
                  IF a[i].name \in bNames
                  THEN [name |-> a[i].name, version |-> valueIn(a[i].name)]
                  ELSE a[i]]
  IN first \o SelectSeq(b, LAMBDA e : e.name \notin aNames)

PackageEntry(entry, filePath) ==
  LET match == FindMapping(entry.name, {"typescript", "javascript", "any"})
  IN IF match = <<>> THEN <<>>
     ELSE <<Evidence("dependency", match[1].name,
                     entry.name \o ": " \o entry.version,
                     filePath, 0, match[1].confidence)>>

PyprojectEntry(dep, content, filePath) ==
  IF dep.language \notin {"python", "any"} THEN <<>>
  ELSE IF Contains(content, "\"" \o dep.name \o "\"")
          \/ Contains(content, "'" \o dep.name \o "'")
          \/ Contains(content, dep.name)
       THEN <<Evidence("dependency", dep.name, dep.name, filePath, 0, dep.confidence)>>
       ELSE <<>>

analyzeDependencyFile(file, filePath, fileName) ==
  IF fileName = "requirements.txt" \/ fileName = "Pipfile"
  THEN LET lines == Split(file.text, "\n")
       IN Flatten([i \in 1..Len(lines) |-> RequirementLine(lines[i], filePath)])
  ELSE IF fileName = "pyproject.toml"
  THEN Flatten([i \in 1..Len(DEPENDENCY_MAPPINGS) |->
                  PyprojectEntry(DEPENDENCY_MAPPINGS[i], file.text, filePath)])
  ELSE IF fileName = "package.json"
  THEN IF ~file.pkg.valid THEN <<>>
       ELSE LET allDeps == ObjectSpread(file.pkg.dependencies, file.pkg.devDependencies)
            IN Flatten([i \in 1..Len(allDeps) |-> PackageEntry(allDeps[i], filePath)])
  ELSE <<>>

\* envPattern.pattern.test(content): an unanchored search of the whole content
EnvTest(envPattern, content) ==
  LET n == Len(envPattern.name)
  IN \E i \in 1..(Len(content) - n + 1) :
       /\ SubSeq(content, i, i + n - 1) = envPattern.name
       /\ envPattern.eq =>
            \E j \in (i + n)..Len(content) :
              /\ CharAt(content, j) = "="
              /\ \A k \in (i + n)..(j - 1) : IsSpace(CharAt(content, k))

EnvMatchedText(envPattern) == envPattern.provider \o " API key detected (value redacted)"

\* analyzeEnvFile that records the file content as the matched text
analyzeEnvFile_Leaky(content, filePath) ==
  Flatten([i \in 1..Len(ENV_VAR_PATTERNS) |->
             IF EnvTest(ENV_VAR_PATTERNS[i], content)
             THEN <<Evidence("env_var", ENV_VAR_PATTERNS[i].source,
                             ENV_VAR_PATTERNS[i].provider \o " API key detected: " \o content,
                             filePath, 0, ENV_VAR_PATTERNS[i].confidence)>>
             ELSE <<>>])

analyzeEnvFile(content, filePath) ==
  Flatten([i \in 1..Len(ENV_VAR_PATTERNS) |->
             IF EnvTest(ENV_VAR_PATTERNS[i], content)
             THEN <<Evidence("env_var", ENV_VAR_PATTERNS[i].source,
                             EnvMatchedText(ENV_VAR_PATTERNS[i]), filePath, 0,
                             ENV_VAR_PATTERNS[i].confidence)>>
             ELSE <<>>])

\* ---------------------------------------------------------- agent registry
\* The Map<string, AgentRecord> is the list of its records in insertion
\* order; each record carries its key.
AgentKey(framework, file) == framework \o ":" \o file

MapHas(map, key) == \E i \in 1..Len(map) : map[i].key = key

MapSet(map, key, rec) ==
  IF MapHas(map, key)
  THEN [i \in 1..Len(map) |-> IF map[i].key = key THEN rec ELSE map[i]]
  ELSE Append(map, rec)

Undefined == "undefined"

SourceRecord(agentKey, detection, file, language) ==
  [key |-> agentKey, framework |-> detection.framework,
   confidence |-> detection.totalConfidence, filePath |-> file,
   language |-> language, entryPoint |-> file,
   owner |-> Undefined, lastModified |-> -1,
   evidence |-> detection.evidence, risks |-> <<>>]

\* ConfigRecord that stores the base name as the location of the record
ConfigRecord_Basename(agentKey, file, name) ==
  [key |-> agentKey, framework |-> "crewai",
   confidence |-> CONFIG_CONFIDENCE, filePath |-> name,
   language |-> "python", entryPoint |-> Undefined,
   owner |-> Undefined, lastModified |-> -1,
   evidence |-> <<Evidence("config_file", name, name, file, 0, CONFIG_CONFIDENCE)>>,
   risks |-> <<>>]

ConfigRecord(agentKey, file, name) ==
  [key |-> agentKey, framework |-> "crewai",
   confidence |-> CONFIG_CONFIDENCE, filePath |-> file,
   language |-> "python", entryPoint |-> Undefined,
   owner |-> Undefined, lastModified |-> -1,
   evidence |-> <<Evidence("config_file", name, name, file, 0, CONFIG_CONFIDENCE)>>,
   risks |-> <<>>]

\* the threshold test with the comparison turned around
MeetsThreshold_Inverted(totalConfidence, confidenceThreshold) ==
  totalConfidence <= confidenceThreshold

\* the threshold test of scanLocal
MeetsThreshold(totalConfidence, confidenceThreshold) ==
  totalConfidence >= confidenceThreshold

\* ------------------------------------------------------------------ fold-in
\* AddDependency without the cap at 1.0
AddDependency_NoCap(agent, dep) ==
  LET mapping == FindMapping(dep.pattern, AllLanguages)
  IN IF mapping = <<>> THEN agent
     ELSE IF agent.framework # mapping[1].framework THEN agent
     ELSE IF \E i \in 1..Len(agent.evidence) :
               agent.evidence[i].type = "dependency"
               /\ agent.evidence[i].pattern = dep.pattern
          THEN agent
          ELSE [agent EXCEPT !.evidence = Append(@, dep),
                             !.confidence = @ + dep.confidenceContribution \div 2]

\* AddDependency that aggregates the evidence list of the record anew
AddDependency_Reaggregates(agent, dep) ==
  LET mapping == FindMapping(dep.pattern, AllLanguages)
  IN IF mapping = <<>> THEN agent
     ELSE IF agent.framework # mapping[1].framework THEN agent
     ELSE IF \E i \in 1..Len(agent.evidence) :
               agent.evidence[i].type = "dependency"
               /\ agent.evidence[i].pattern = dep.pattern
          THEN agent
          ELSE [agent EXCEPT !.evidence = Append(@, dep),
                             !.confidence = calculateConfidence(Append(agent.evidence, dep))]

\* AddDependency without the test for evidence the record already holds
AddDependency_NoDedup(agent, dep) ==
  LET mapping == FindMapping(dep.pattern, AllLanguages)
  IN IF mapping = <<>> THEN agent
     ELSE IF agent.framework # mapping[1].framework THEN agent
     ELSE [agent EXCEPT !.evidence = Append(@, dep),
                        !.confidence = Min(ONE, @ + dep.confidenceContribution \div 2)]

AddDependency(agent, dep) ==
  LET mapping == FindMapping(dep.pattern, AllLanguages)
  IN IF mapping = <<>> THEN agent
     ELSE IF agent.framework # mapping[1].framework THEN agent
     ELSE IF \E i \in 1..Len(agent.evidence) :
               agent.evidence[i].type = "dependency"
               /\ agent.evidence[i].pattern = dep.pattern
          THEN agent
          ELSE [agent EXCEPT !.evidence = Append(@, dep),
                             !.confidence = Min(ONE, @ + dep.confidenceContribution \div 2)]

\* enrichWithDependencies that makes a record of the first dependency when the
\* registry is empty
enrichWithDependencies_CreatesRecord(map, depEvidence) ==
  IF map = <<>> /\ depEvidence # <<>>
  THEN LET dep == Head(depEvidence)
           mapping == FindMapping(dep.pattern, AllLanguages)
       IN <<SourceRecord(AgentKey(IF mapping = <<>> THEN "custom" ELSE mapping[1].framework,
                                  dep.filePath),
                         [framework |-> IF mapping = <<>> THEN "custom"
                                        ELSE mapping[1].framework,
                          totalConfidence |-> dep.confidenceContribution,
                          evidence |-> <<dep>>],
                         dep.filePath, "unknown")>>
  ELSE IF depEvidence = <<>> THEN map
  ELSE [i \in 1..Len(map) |-> AddDependency(map[i], Head(depEvidence))]

\* enrichWithDependencies that attributes every record to the framework of the
\* first mapped dependency
enrichWithDependencies_Reattributes(map, depEvidence) ==
  LET mapped == SelectSeq(depEvidence,
                          LAMBDA dep : FindMapping(dep.pattern, AllLanguages) # <<>>)
  IN IF mapped = <<>> THEN map
     ELSE [i \in 1..Len(map) |->
             [map[i] EXCEPT !.framework =
                FindMapping(Head(mapped).pattern, AllLanguages)[1].framework]]

RECURSIVE enrichWithDependencies(_, _)
enrichWithDependencies(map, depEvidence) ==
  IF depEvidence = <<>> THEN map
  ELSE enrichWithDependencies(
         [i \in 1..Len(map) |-> AddDependency(map[i], Head(depEvidence))],
         Tail(depEvidence))

\* AddEnvVar that adds the contribution of the item instead of the flat boost
AddEnvVar_AddsContribution(agent, env) ==
  IF \E i \in 1..Len(agent.evidence) :
       agent.evidence[i].type = "env_var" /\ agent.evidence[i].pattern = env.pattern
  THEN agent
  ELSE [agent EXCEPT !.evidence = Append(@, env),
                     !.confidence = Min(ONE, @ + env.confidenceContribution)]

AddEnvVar(agent, env) ==
  IF \E i \in 1..Len(agent.evidence) :
       agent.evidence[i].type = "env_var" /\ agent.evidence[i].pattern = env.pattern
  THEN agent
  ELSE [agent EXCEPT !.evidence = Append(@, env),
                     !.confidence = Min(ONE, @ + ENV_BOOST)]

RECURSIVE enrichWithEnvVars(_, _)
enrichWithEnvVars(map, envEvidence) ==
  IF envEvidence = <<>> THEN map
  ELSE enrichWithEnvVars(
         [i \in 1..Len(map) |-> AddEnvVar(map[i], Head(envEvidence))],
         Tail(envEvidence))

\* --------------------------------------------------------------------- sort
\* Array.prototype.sort((a, b) => b.confidence - a.confidence): a stable sort
\* of the registry positions by descending confidence
RECURSIVE InsertDesc(_, _, _)
InsertDesc(sorted, x, map) ==
  IF sorted = <<>> THEN <<x>>
  ELSE IF map[Head(sorted)].confidence >= map[x].confidence
       THEN <<Head(sorted)>> \o InsertDesc(Tail(sorted), x, map)
       ELSE <<x>> \o sorted

RECURSIVE SortFrom(_, _, _)
SortFrom(sorted, i, map) ==
  IF i > Len(map) THEN sorted ELSE SortFrom(InsertDesc(sorted, i, map), i + 1, map)

\* no sort: the registry values in insertion order
SortByConfidence_InsertionOrder(map) == [i \in 1..Len(map) |-> i]

SortByConfidence(map) == SortFrom(<<>>, 1, map)

\* ------------------------------------------------------ ownership enricher
\* A revision log is [ok, all]: ok = FALSE is a failed query; all lists the
\* entries, most recent first (log.latest is the first one); a date is the
\* age of the entry in months.
NoBlame == [owner |-> Undefined, lastModified |-> -1, authors |-> <<>>]

RECURSIVE AuthorsOf(_)
AuthorsOf(all) ==
  IF all = <<>> THEN <<>>
  ELSE LET r == AuthorsOf(SubSeq(all, 1, Len(all) - 1))
           a == all[Len(all)].author_name
       IN IF a = "" \/ a \in Range(r) THEN r ELSE Append(r, a)

CountOf(all, author) == Cardinality({i \in 1..Len(all) : all[i].author_name = author})

\* PickOwner that lets a later author with the same count take over
RECURSIVE PickOwner_LastWins(_, _, _, _)
PickOwner_LastWins(authors, all, owner, maxCount) ==
  IF authors = <<>> THEN owner
  ELSE LET count == CountOf(all, Head(authors))
       IN IF count >= maxCount
          THEN PickOwner_LastWins(Tail(authors), all, Head(authors), count)
          ELSE PickOwner_LastWins(Tail(authors), all, owner, maxCount)

RECURSIVE PickOwner(_, _, _, _)
PickOwner(authors, all, owner, maxCount) ==
  IF authors = <<>> THEN owner
  ELSE LET count == CountOf(all, Head(authors))
       IN IF count > maxCount
          THEN PickOwner(Tail(authors), all, Head(authors), count)
          ELSE PickOwner(Tail(authors), all, owner, maxCount)

getFileBlame(log) ==
  IF ~log.ok \/ Len(log.all) = 0 THEN NoBlame
  ELSE LET authors == AuthorsOf(log.all)
       IN [owner |-> PickOwner(authors, log.all, Undefined, 0),
           lastModified |-> log.all[1].date,
           authors |-> authors]

\* ----------------------------------------------------------- risk evaluator
SIX_MONTHS == 6
LOW_CONFIDENCE_MIN == 400
LOW_CONFIDENCE_MAX == 600

WordChars == "abcdefghijklmnopqrstuvwxyz0123456789_"
IsWordChar(c) == \E k \in 1..Len(WordChars) : CharAt(WordChars, k) = c

\* /\bw\b/ on a lower-cased text
HasWord(t, w) ==
  \E i \in 1..(Len(t) - Len(w) + 1) :
    /\ SubSeq(t, i, i + Len(w) - 1) = w
    /\ (i = 1 \/ ~IsWordChar(CharAt(t, i - 1)))
    /\ (i + Len(w) > Len(t) \/ ~IsWordChar(CharAt(t, i + Len(w))))

\* /a.*b/ : b somewhere after a on the same line
HasGap(t, a, b) ==
  \E i \in 1..(Len(t) - Len(a) + 1) :
    /\ SubSeq(t, i, i + Len(a) - 1) = a
    /\ \E j \in (i + Len(a))..(Len(t) - Len(b) + 1) :
         /\ SubSeq(t, j, j + Len(b) - 1) = b
         /\ \A k \in (i + Len(a))..(j - 1) : CharAt(t, k) \notin {"\n", "\r"}

\* /a.?b/
HasOpt(t, a, b) ==
  \/ Contains(t, a \o b)
  \/ \E i \in 1..(Len(t) - Len(a) - Len(b)) :
       /\ SubSeq(t, i, i + Len(a) - 1) = a
       /\ CharAt(t, i + Len(a)) \notin {"\n", "\r"}
       /\ SubSeq(t, i + Len(a) + 1, i + Len(a) + Len(b)) = b

\* /a\s*b/
HasSpaced(t, a, b) ==
  \E i \in 1..(Len(t) - Len(a) + 1) :
    /\ SubSeq(t, i, i + Len(a) - 1) = a
    /\ \E j \in (i + Len(a))..(Len(t) - Len(b) + 1) :
         /\ SubSeq(t, j, j + Len(b) - 1) = b
         /\ \A k \in (i + Len(a))..(j - 1) : IsSpace(CharAt(t, k))

DbVocabulary(text) ==
  LET t == ToLowerCase(text)
  IN \/ \E w \in {"database", "postgres", "mysql", "mongo", "redis", "dynamo", "supabase"} :
          Contains(t, w)
     \/ HasWord(t, "sql") \/ HasWord(t, "db")

EmailVocabulary(text) ==
  LET t == ToLowerCase(text)
  IN \/ \E w \in {"send_email", "sendmail", "smtp"} : Contains(t, w)
     \/ HasGap(t, "email", "tool") \/ HasGap(t, "mail", "send")

SpawnVocabulary(text) ==
  LET t == ToLowerCase(text)
  IN \/ HasOpt(t, "sub", "agent")
     \/ \E w \in {"spawn", "create", "child", "nested"} : HasGap(t, w, "agent")

ApiVocabulary(text) ==
  LET t == ToLowerCase(text)
  IN \/ \E w \in {"get", "post", "put", "delete", "patch"} : Contains(t, "requests." \o w)
     \/ HasSpaced(text, "fetch", "(")
     \/ \E w \in {"axios", "httpx", "urllib", "aiohttp"} : Contains(t, w)

RiskFlag(sev, ty) == [severity |-> sev, type |-> ty]

\* the vocabularies whose expressions match a text
VocabularyTests(text) ==
  (IF DbVocabulary(text) THEN {"database"} ELSE {})
  \cup (IF EmailVocabulary(text) THEN {"email"} ELSE {})
  \cup (IF SpawnVocabulary(text) THEN {"spawn"} ELSE {})
  \cup (IF ApiVocabulary(text) THEN {"api"} ELSE {})

\* ------------------------------------------------------------ scanned tree
Hit(src, txt) == [pattern |-> src, text |-> txt]

NoPkg == [valid |-> FALSE, dependencies |-> <<>>, devDependencies |-> <<>>]
NoLog == [ok |-> FALSE, all |-> <<>>]
Entry(a, d) == [author_name |-> a, date |-> d]
Dep(n, v) == [name |-> n, version |-> v]

File(path, statOk, size, readOk, lines, text, pkg, log) ==
  [path |-> path, statOk |-> statOk, size |-> size, readOk |-> readOk,
   lines |-> lines, text |-> text, pkg |-> pkg, log |-> log]

LongImport == "from" \o Rep(" ", MATCH_MAX_LEN) \o "crewai import"
LongVersion == Rep("9", MATCH_MAX_LEN + 10)
LongComment == "crewai # " \o Rep("x", MATCH_MAX_LEN)

\* the files a tree is made of, in the discovery order of the glob
Catalog ==
  << File("agent.py", TRUE, 120, TRUE,
          << {Hit("from\\s+langchain[._\\s]", "from langchain.")},
             {},
             {Hit("AgentExecutor\\s*\\(", "AgentExecutor("),
              Hit("create_react_agent\\s*\\(", "create_react_agent(")},
             {Hit("from\\s+langchain[._\\s]", "from langchain_")} >>,
          "", NoPkg,
          [ok |-> TRUE, all |-> <<Entry("bob", 1), Entry("alice", 2), Entry("alice", 9)>>]),
     File("weak.py", TRUE, 40, TRUE,
          << {Hit("import\\s+crewai", "import crewai")} >>,
          "", NoPkg, [ok |-> TRUE, all |-> <<>>]),
     File("crew.py", TRUE, 900, TRUE,
          << {Hit("from\\s+crewai\\s+import", LongImport)},
             {Hit("Crew\\s*\\(", "Crew("), Hit("import\\s+langchain", "import langchain")},
             {Hit("@agent\\b", "@agent")} >>,
          "", NoPkg,
          [ok |-> TRUE, all |-> <<Entry("carol", 8), Entry("bob", 8)>>]),
     File("src/app.ts", TRUE, 300, TRUE,
          << {Hit("from\\s+[\"']langchain", "from \"langchain")},
             {Hit("new\\s+AgentExecutor\\s*\\(", "new AgentExecutor(")} >>,
          "", NoPkg, NoLog),
     File("bot.js", TRUE, 80, TRUE,
          << {Hit("from\\s+[\"']openai[\"']", "from 'openai'")},
             {Hit("tools\\s*:\\s*\\[", "tools: [")} >>,
          "", NoPkg, [ok |-> TRUE, all |-> <<Entry("", 3), Entry("dave", 7)>>]),
     File("crewai.yaml", TRUE, 60, TRUE, <<>>, "", NoPkg,
          [ok |-> TRUE, all |-> <<Entry("alice", 7)>>]),
     File("cfg/crewai.yaml", TRUE, 60, FALSE, <<>>, "", NoPkg, NoLog),
     File("requirements.txt", TRUE, 50, TRUE, <<>>,
          "LangChain>=0.1\n" \o LongComment \o "\nrequests\n", NoPkg, NoLog),
     File("pyproject.toml", TRUE, 50, TRUE, <<>>,
          "dependencies = [\"crewai-tools\"]", NoPkg, NoLog),
     File("package.json", TRUE, 70, TRUE, <<>>, "",
          [valid |-> TRUE,
           dependencies |-> <<Dep("@langchain/core", "^0.1"), Dep("openai", "^4.0")>>,
           devDependencies |-> <<Dep("openai", LongVersion), Dep("left-pad", "1")>>],
          NoLog),
     File("web/package.json", TRUE, 70, TRUE, <<>>, "", NoPkg, NoLog),
     File(".env.local", TRUE, 30, TRUE, <<>>,
          "OPENAI_API_KEY=sk-live-1234\nGOOGLE_API_KEY = g-77\n", NoPkg, NoLog),
     File(".env.production", TRUE, 30, TRUE, <<>>,
          "OPENAI_API_KEY=sk-prod-1\nGOOGLE_API_KEY = g-11\n", NoPkg, NoLog),
     File(".env", TRUE, 30, TRUE, <<>>,
          "OPENAI_API_KEY=sk-live-1234\nGOOGLE_API_KEY = g-77\n", NoPkg, NoLog),
     File("big.py", TRUE, MAX_FILE_SIZE + 1, TRUE,
          << {Hit("import\\s+crewai", "import crewai")},
             {Hit("Crew\\s*\\(", "Crew(")} >>,
          "", NoPkg, NoLog),
     File("locked.py", TRUE, 90, FALSE,
          << {Hit("import\\s+crewai", "import crewai")},
             {Hit("Crew\\s*\\(", "Crew(")} >>,
          "", NoPkg, NoLog),
     File("gone.py", FALSE, 0, FALSE,
          << {Hit("import\\s+crewai", "import crewai")},
             {Hit("Crew\\s*\\(", "Crew(")} >>,
          "", NoPkg, NoLog) >>

EnvTextChoices ==
  { "OPENAI_API_KEY=sk-live-1234\nGOOGLE_API_KEY = g-77\n",
    "OPENAI_API_KEY=sk-test-9999\nGOOGLE_API_KEY = g-00\n",
    "OPENAI_API_KEY=sk-live-1234\nGOOGLE_API_KEY = AWS_BEDROCK\n" }

WithEnvText(allFiles, text) ==
  [i \in 1..Len(allFiles) |->
     IF Basename(allFiles[i].path) = ".env" \/ StartsWith(Basename(allFiles[i].path), ".env.")
     THEN [allFiles[i] EXCEPT !.text = text] ELSE allFiles[i]]

\* what the file loop computes from one file
AnalysesOf(file) ==
  [ext |-> ToLowerCase(Extname(file.path)),
   name |-> Basename(file.path),
   analysis |-> analyzeFile(file),
   dependencies |-> analyzeDependencyFile(file, file.path, Basename(file.path)),
   env |-> analyzeEnvFile(file.text, file.path)]

\* AnalysesOf, tabulated once for the files the trees are made of
KnownFiles == Range(Catalog) \cup UNION {Range(WithEnvText(Catalog, t)) : t \in EnvTextChoices}

AnalysesTable == [f \in KnownFiles |-> AnalysesOf(f)]

Analyses(file) == AnalysesTable[file]

\* the evidence text of the agent lists handed to enrichWithRisks directly
EmailText == "send_email(to='admin@example.com')"

\* every text an evidence item of a catalog file or of such a list can carry
EvidenceTexts ==
  LET ofFile(a) ==
        UNION {{d.evidence[i].matchedText : i \in 1..Len(d.evidence)} :
                 d \in Range(a.analysis.detections)}
        \cup {e.matchedText : e \in Range(a.dependencies)}
        \cup {e.matchedText : e \in Range(a.env)}
        \cup {a.name}
  IN UNION {ofFile(AnalysesTable[f]) : f \in KnownFiles} \cup {EmailText}

\* VocabularyTests, tabulated once for the texts of the catalog
VocabularyTable == [t \in EvidenceTexts |-> VocabularyTests(t)]

Vocabulary(text) == VocabularyTable[text]

AnyEvidence(agent, vocabulary) ==
  \E i \in 1..Len(agent.evidence) : vocabulary \in Vocabulary(agent.evidence[i].matchedText)

\* RISK_RULES whose low-confidence rule takes a confidence of exactly 0.6 in
RISK_RULES_LowConfidenceWide(agent) ==
  << IF agent.owner = Undefined \/ agent.owner = ""
     THEN <<RiskFlag("medium", "no-owner")>> ELSE <<>>,
     IF agent.lastModified # -1 /\ agent.lastModified > SIX_MONTHS
     THEN <<RiskFlag("low", "stale-agent")>> ELSE <<>>,
     IF agent.confidence <= LOW_CONFIDENCE_MAX /\ agent.confidence >= LOW_CONFIDENCE_MIN
     THEN <<RiskFlag("low", "low-confidence")>> ELSE <<>>,
     IF AnyEvidence(agent, "database")
     THEN <<RiskFlag("medium", "database-access")>> ELSE <<>>,
     IF AnyEvidence(agent, "email")
     THEN <<RiskFlag("high", "email-capability")>> ELSE <<>>,
     IF AnyEvidence(agent, "spawn")
     THEN <<RiskFlag("medium", "agent-spawning")>> ELSE <<>>,
     IF AnyEvidence(agent, "api")
     THEN <<RiskFlag("low", "external-api")>> ELSE <<>>,
     <<>> >>

\* RISK_RULES, in order; each rule yields its flag or nothing
RISK_RULES(agent) ==
  << IF agent.owner = Undefined \/ agent.owner = ""
     THEN <<RiskFlag("medium", "no-owner")>> ELSE <<>>,
     IF agent.lastModified # -1 /\ agent.lastModified > SIX_MONTHS
     THEN <<RiskFlag("low", "stale-agent")>> ELSE <<>>,
     IF agent.confidence < LOW_CONFIDENCE_MAX /\ agent.confidence >= LOW_CONFIDENCE_MIN
     THEN <<RiskFlag("low", "low-confidence")>> ELSE <<>>,
     IF AnyEvidence(agent, "database")
     THEN <<RiskFlag("medium", "database-access")>> ELSE <<>>,
     IF AnyEvidence(agent, "email")
     THEN <<RiskFlag("high", "email-capability")>> ELSE <<>>,
     IF AnyEvidence(agent, "spawn")
     THEN <<RiskFlag("medium", "agent-spawning")>> ELSE <<>>,
     IF AnyEvidence(agent, "api")
     THEN <<RiskFlag("low", "external-api")>> ELSE <<>>,
     <<>> >>

evaluateAgentRisks(agent) == Flatten(RISK_RULES(agent))

NoCounts == [critical |-> 0, high |-> 0, medium |-> 0, low |-> 0]

\* CountFlags that counts the first flag of a list only
CountFlags_FirstOnly(counts, flags) ==
  IF flags = <<>> THEN counts
  ELSE [counts EXCEPT ![Head(flags).severity] = @ + 1]

RECURSIVE CountFlags(_, _)
CountFlags(counts, flags) ==
  IF flags = <<>> THEN counts
  ELSE CountFlags([counts EXCEPT ![Head(flags).severity] = @ + 1], Tail(flags))

\* the loop of enrichWithRisks over the agents: acc is [map, allRisks, counts]
RECURSIVE RiskLoop(_, _)
RiskLoop(acc, order) ==
  IF order = <<>> THEN acc
  ELSE LET i == Head(order)
           step(agentRisks) ==
             [map |-> [acc.map EXCEPT ![i].risks = agentRisks],
              allRisks |-> acc.allRisks \o agentRisks,
              counts |-> CountFlags(acc.counts, agentRisks)]
       IN RiskLoop(step(evaluateAgentRisks(acc.map[i])), Tail(order))

\* enrichWithRisks that raises high-agent-count from HIGH_COUNT records on
enrichWithRisks_CountFromTwenty(map, order) ==
  LET uniqueFrameworks == {map[order[k]].framework : k \in 1..Len(order)}
      sprawl == IF Cardinality(uniqueFrameworks) >= SPRAWL_MIN
                THEN <<RiskFlag("medium", "framework-sprawl")>> ELSE <<>>
      count == IF Len(order) >= HIGH_COUNT
               THEN <<RiskFlag("high", "high-agent-count")>> ELSE <<>>
      summary(perAgent, scanLevel) ==
        LET build(counts) ==
              [map |-> perAgent.map,
               risks |-> [critical |-> counts.critical, high |-> counts.high,
                          medium |-> counts.medium, low |-> counts.low,
                          details |-> perAgent.allRisks \o scanLevel]]
        IN build(CountFlags(perAgent.counts, scanLevel))
  IN summary(RiskLoop([map |-> map, allRisks |-> <<>>, counts |-> NoCounts], order),
             sprawl \o count)

\* enrichWithRisks that raises framework-sprawl only above SPRAWL_MIN frameworks
enrichWithRisks_SprawlAboveFour(map, order) ==
  LET uniqueFrameworks == {map[order[k]].framework : k \in 1..Len(order)}
      sprawl == IF Cardinality(uniqueFrameworks) > SPRAWL_MIN
                THEN <<RiskFlag("medium", "framework-sprawl")>> ELSE <<>>
      count == IF Len(order) > HIGH_COUNT
               THEN <<RiskFlag("high", "high-agent-count")>> ELSE <<>>
      summary(perAgent, scanLevel) ==
        LET build(counts) ==
              [map |-> perAgent.map,
               risks |-> [critical |-> counts.critical, high |-> counts.high,
                          medium |-> counts.medium, low |-> counts.low,
                          details |-> perAgent.allRisks \o scanLevel]]
        IN build(CountFlags(perAgent.counts, scanLevel))
  IN summary(RiskLoop([map |-> map, allRisks |-> <<>>, counts |-> NoCounts], order),
             sprawl \o count)

\* enrichWithRisks over the registry records listed by order; returns the
\* records with their risks set and the scan-level summary
enrichWithRisks(map, order) ==
  LET uniqueFrameworks == {map[order[k]].framework : k \in 1..Len(order)}
      sprawl == IF Cardinality(uniqueFrameworks) >= SPRAWL_MIN
                THEN <<RiskFlag("medium", "framework-sprawl")>> ELSE <<>>
      count == IF Len(order) > HIGH_COUNT
               THEN <<RiskFlag("high", "high-agent-count")>> ELSE <<>>
      summary(perAgent, scanLevel) ==
        LET build(counts) ==
              [map |-> perAgent.map,
               risks |-> [critical |-> counts.critical, high |-> counts.high,
                          medium |-> counts.medium, low |-> counts.low,
                          details |-> perAgent.allRisks \o scanLevel]]
        IN build(CountFlags(perAgent.counts, scanLevel))
  IN summary(RiskLoop([map |-> map, allRisks |-> <<>>, counts |-> NoCounts], order),
             sprawl \o count)

RECURSIVE Reverse(_)
Reverse(s) == IF s = <<>> THEN <<>> ELSE Append(Reverse(Tail(s)), Head(s))

RECURSIVE PickFiles(_, _)
PickFiles(i, S) ==
  IF i > Len(Catalog) THEN <<>>
  ELSE (IF i \in S THEN <<Catalog[i]>> ELSE <<>>) \o PickFiles(i + 1, S)

\* the trees: at most MaxTree files of the catalog, in catalog order or in
\* the opposite order
Trees ==
  LET picks == {S \in SUBSET (1..Len(Catalog)) : Cardinality(S) <= MaxTree}
  IN {PickFiles(1, S) : S \in picks} \cup {Reverse(PickFiles(1, S)) : S \in picks}

ThresholdChoices == {0, REPORT, 800}
MaxFilesChoices == {2, DEFAULT_MAX_FILES}

ScanOptionsSet ==
  [github : BOOLEAN, confidenceThreshold : ThresholdChoices, maxFiles : MaxFilesChoices]

NoOptions == [github |-> FALSE, confidenceThreshold |-> REPORT, maxFiles |-> DEFAULT_MAX_FILES]

\* -------------------------------------------------------------------- state
VARIABLES
  tree,               \* the files the glob finds under the scan root, in order
  inRepo,             \* answer of isGitRepo for the scan root
  pc,                 \* position of the scan
  options,            \* ScanOptions of the call
  error,              \* message of the error scan() threw, or ""
  files,              \* candidate files after filtering and the maxFiles cap
  idx,                \* index in files of the next file of the loop
  touched,            \* paths on which stat was called
  analysis,           \* FileAnalysisResult of the last analyzeFile call
  agentMap,           \* the Agent Registry
  dependencyEvidence,
  envEvidence,
  progress,           \* the ScanProgress object
  notifications,      \* the values passed to onProgress, in order
  agents,             \* the sorted array, as positions in agentMap
  blameQueries,       \* file paths passed to getFileBlame, in order
  result,             \* the ScanResult, or NoResult
  scanB               \* a second scan, run beside the first to compare two scans

vars == <<tree, inRepo, pc, options, error, files, idx, touched, analysis, agentMap,
          dependencyEvidence, envEvidence, progress, notifications, agents,
          blameQueries, result, scanB>>

NoResult == [summary |-> [totalAgents |-> -1, totalFiles |-> -1], agents |-> <<>>,
             frameworkBreakdown |-> <<>>,
             risks |-> [critical |-> 0, high |-> 0, medium |-> 0, low |-> 0, details |-> <<>>],
             metadata |-> [confidenceThreshold |-> -1]]

NoAnalysis == [filePath |-> "", language |-> "unknown", detections |-> <<>>]

NoProgress == [phase |-> "", filesDiscovered |-> 0, filesScanned |-> 0,
               agentsFound |-> 0, currentFile |-> Undefined]

\* the registry, evidence lists and progress of a scan, as one record
ScanState(map, deps, envs, pr, notes, an) ==
  [agentMap |-> map, dependencyEvidence |-> deps, envEvidence |-> envs,
   progress |-> pr, notifications |-> notes, analysis |-> an]

NoScanB ==
  [tree |-> <<>>, confidenceThreshold |-> REPORT, files |-> <<>>,
   state |-> ScanState(<<>>, <<>>, <<>>, NoProgress, <<>>, NoAnalysis),
   agents |-> <<>>]

Init ==
  /\ tree \in Trees
  /\ inRepo = FALSE
  /\ pc = "idle"
  /\ options = NoOptions
  /\ error = ""
  /\ files = <<>>
  /\ idx = 1
  /\ touched = {}
  /\ analysis = NoAnalysis
  /\ agentMap = <<>>
  /\ dependencyEvidence = <<>>
  /\ envEvidence = <<>>
  /\ progress = NoProgress
  /\ notifications = <<>>
  /\ agents = <<>>
  /\ blameQueries = <<>>
  /\ result = NoResult
  /\ scanB = NoScanB

\* ------------------------------------------------------------------ actions
GithubError ==
  "GitHub scanning is not yet implemented. Use local scanning: agentgov audit --path /your/code"

\* scan that reports progress before it looks at options.github
ScanGithub_AfterStart ==
  /\ pc = "idle"
  /\ \E o \in ScanOptionsSet :
       /\ o.github
       /\ options' = o
  /\ progress' = [phase |-> "discovering", filesDiscovered |-> 0, filesScanned |-> 0,
                  agentsFound |-> 0, currentFile |-> Undefined]
  /\ notifications' = Append(notifications, progress')
  /\ pc' = "threw"
  /\ error' = GithubError
  /\ UNCHANGED <<tree, inRepo, files, idx, touched, analysis, agentMap,
                 dependencyEvidence, envEvidence, agents, blameQueries, result, scanB>>

\* scan(options, onProgress) with options.github set: throws at once
ScanGithub ==
  /\ pc = "idle"
  /\ \E o \in ScanOptionsSet :
       /\ o.github
       /\ options' = o
  /\ pc' = "threw"
  /\ error' = GithubError
  /\ UNCHANGED <<tree, inRepo, files, idx, touched, analysis, agentMap,
                 dependencyEvidence, envEvidence, progress, notifications, agents,
                 blameQueries, result, scanB>>

\* scan(options, onProgress) without github: scanLocal starts and sends the
\* first notification
ScanStart ==
  /\ pc = "idle"
  /\ \E o \in ScanOptionsSet :
       /\ ~o.github
       /\ options' = o
  /\ progress' = [phase |-> "discovering", filesDiscovered |-> 0, filesScanned |-> 0,
                  agentsFound |-> 0, currentFile |-> Undefined]
  /\ notifications' = Append(notifications, progress')
  /\ pc' = "discovering"
  /\ UNCHANGED <<tree, inRepo, error, files, idx, touched, analysis, agentMap,
                 dependencyEvidence, envEvidence, agents, blameQueries, result, scanB>>

\* ig.ignores(f) for the ignore filter that holds SKIP_DIRECTORIES: a pattern
\* without a slash matches a file or a directory of that name at any depth
Ignores(path) ==
  \E seg \in Range(Split(path, "/")) :
     \/ seg \in SKIP_DIRECTORIES \ {"*.egg-info"}
     \/ EndsWith(seg, ".egg-info")

\* the cap applied before the ignore filter
Candidates_SliceFirst(allFiles, maxFiles) ==
  SelectSeq(SubSeq(allFiles, 1, Min(Len(allFiles), maxFiles)), LAMBDA f : ~Ignores(f.path))

\* allFiles.filter((f) => !ig.ignores(f)).slice(0, maxFiles)
Candidates(allFiles, maxFiles) ==
  LET kept == SelectSeq(allFiles, LAMBDA f : ~Ignores(f.path))
  IN SubSeq(kept, 1, Min(Len(kept), maxFiles))

\* Discover that leaves the phase at discovering
Discover_KeepsPhase ==
  /\ pc = "discovering"
  /\ files' = Candidates(tree, options.maxFiles)
  /\ progress' = [progress EXCEPT !.filesDiscovered = Len(files')]
  /\ notifications' = Append(notifications, progress')
  /\ idx' = 1
  /\ pc' = "scanning"
  /\ UNCHANGED <<tree, inRepo, options, error, touched, analysis, agentMap,
                 dependencyEvidence, envEvidence, agents, blameQueries, result, scanB>>

\* the discovery of the candidate files and the change to phase scanning
Discover ==
  /\ pc = "discovering"
  /\ files' = Candidates(tree, options.maxFiles)
  /\ progress' = [progress EXCEPT !.phase = "scanning", !.filesDiscovered = Len(files')]
  /\ notifications' = Append(notifications, progress')
  /\ idx' = 1
  /\ pc' = "scanning"
  /\ UNCHANGED <<tree, inRepo, options, error, touched, analysis, agentMap,
                 dependencyEvidence, envEvidence, agents, blameQueries, result, scanB>>

\* the loop over result.detections: acc is [map, progress, notes]
RECURSIVE InsertDetections(_, _, _, _, _)
InsertDetections(acc, detections, file, language, confidenceThreshold) ==
  IF detections = <<>> THEN acc
  ELSE LET detection == Head(detections)
           agentKey == AgentKey(detection.framework, file)
           next ==
             IF MeetsThreshold(detection.totalConfidence, confidenceThreshold)
                /\ ~MapHas(acc.map, agentKey)
             THEN LET m == MapSet(acc.map, agentKey,
                                  SourceRecord(agentKey, detection, file, language))
                      pr == [acc.progress EXCEPT !.agentsFound = Len(m)]
                  IN [map |-> m, progress |-> pr, notes |-> Append(acc.notes, pr)]
             ELSE acc
       IN InsertDetections(next, Tail(detections), file, language, confidenceThreshold)

\* the agent config file branch left out
InsertConfig_Skip(acc, file, name) == acc

\* the agent config file branch that leaves agentsFound as it was
InsertConfig_StaleCount(acc, file, name) ==
  IF name \in Range(getAgentConfigFileNames) /\ (name = "crewai.yaml" \/ name = "crewai.yml")
  THEN LET agentKey == AgentKey("crewai", file)
       IN IF ~MapHas(acc.map, agentKey)
          THEN LET m == MapSet(acc.map, agentKey, ConfigRecord(agentKey, file, name))
               IN [map |-> m, progress |-> acc.progress,
                   notes |-> Append(acc.notes, acc.progress)]
          ELSE acc
  ELSE acc

\* the agent config file branch
InsertConfig(acc, file, name) ==
  IF name \in Range(getAgentConfigFileNames) /\ (name = "crewai.yaml" \/ name = "crewai.yml")
  THEN LET agentKey == AgentKey("crewai", file)
       IN IF ~MapHas(acc.map, agentKey)
          THEN LET m == MapSet(acc.map, agentKey, ConfigRecord(agentKey, file, name))
                   pr == [acc.progress EXCEPT !.agentsFound = Len(m)]
               IN [map |-> m, progress |-> pr, notes |-> Append(acc.notes, pr)]
          ELSE acc
  ELSE acc

\* one iteration of the file loop of scanLocal, from the scan state st
FileStep(st, file, confidenceThreshold) ==
  LET loopBody(of, p1) ==
        LET acc0 == [map |-> st.agentMap, progress |-> p1,
                     notes |-> Append(st.notifications, p1)]
            isSource == of.ext \in LanguageExtensionKeys
            finish(res, acc2) ==
              LET pEnd == [acc2.progress EXCEPT !.filesScanned = @ + 1]
              IN ScanState(acc2.map,
                           IF of.name \in Range(DEPENDENCY_FILES) /\ file.readOk
                           THEN st.dependencyEvidence \o of.dependencies
                           ELSE st.dependencyEvidence,
                           IF (of.name = ".env" \/ StartsWith(of.name, ".env."))
                              /\ file.readOk
                           THEN st.envEvidence \o of.env
                           ELSE st.envEvidence,
                           pEnd, Append(acc2.notes, pEnd), res)
        IN IF ~file.statOk \/ file.size > MAX_FILE_SIZE
           THEN [st EXCEPT !.progress = p1, !.notifications = acc0.notes]
           ELSE finish(IF isSource THEN of.analysis ELSE st.analysis,
                       InsertConfig(IF isSource
                                    THEN InsertDetections(acc0, of.analysis.detections,
                                                          file.path, of.analysis.language,
                                                          confidenceThreshold)
                                    ELSE acc0,
                                    file.path, of.name))
  IN loopBody(Analyses(file), [st.progress EXCEPT !.currentFile = file.path])

\* the loop iteration that lets a failed stat end the scan with an error
ProcessFile_ThrowsOnStatFailure ==
  /\ pc = "scanning"
  /\ idx <= Len(files)
  /\ IF ~files[idx].statOk
     THEN /\ pc' = "threw"
          /\ error' = "ENOENT"
          /\ UNCHANGED <<tree, inRepo, options, files, idx, touched, analysis, agentMap,
                         dependencyEvidence, envEvidence, progress, notifications,
                         agents, blameQueries, result, scanB>>
     ELSE /\ \E out \in {FileStep(ScanState(agentMap, dependencyEvidence, envEvidence,
                                             progress, notifications, analysis),
                                   files[idx], options.confidenceThreshold)} :
               /\ agentMap' = out.agentMap
               /\ dependencyEvidence' = out.dependencyEvidence
               /\ envEvidence' = out.envEvidence
               /\ progress' = out.progress
               /\ notifications' = out.notifications
               /\ analysis' = out.analysis
          /\ touched' = touched \cup {files[idx].path}
          /\ idx' = idx + 1
          /\ UNCHANGED <<tree, inRepo, pc, options, error, files, agents, blameQueries,
                         result, scanB>>

ProcessFile ==
  /\ pc = "scanning"
  /\ idx <= Len(files)
  /\ \E out \in {FileStep(ScanState(agentMap, dependencyEvidence, envEvidence, progress,
                                    notifications, analysis),
                          files[idx], options.confidenceThreshold)} :
       /\ agentMap' = out.agentMap
       /\ dependencyEvidence' = out.dependencyEvidence
       /\ envEvidence' = out.envEvidence
       /\ progress' = out.progress
       /\ notifications' = out.notifications
       /\ analysis' = out.analysis
  /\ touched' = touched \cup {files[idx].path}
  /\ idx' = idx + 1
  /\ UNCHANGED <<tree, inRepo, pc, options, error, files, agents, blameQueries, result, scanB>>

\* enrichWithDependencies(agentMap, dependencyEvidence)
FoldDependencies ==
  /\ pc = "scanning"
  /\ idx > Len(files)
  /\ agentMap' = enrichWithDependencies(agentMap, dependencyEvidence)
  /\ pc' = "foldEnv"
  /\ UNCHANGED <<tree, inRepo, options, error, files, idx, touched, analysis,
                 dependencyEvidence, envEvidence, progress, notifications, agents,
                 blameQueries, result, scanB>>

\* enrichWithEnvVars(agentMap, envEvidence)
FoldEnvVars ==
  /\ pc = "foldEnv"
  /\ agentMap' = enrichWithEnvVars(agentMap, envEvidence)
  /\ pc' = "folded"
  /\ UNCHANGED <<tree, inRepo, options, error, files, idx, touched, analysis,
                 dependencyEvidence, envEvidence, progress, notifications, agents,
                 blameQueries, result, scanB>>

\* the change to phase enriching and the sort of the registry values
BeginEnriching ==
  /\ pc = "folded"
  /\ progress' = [progress EXCEPT !.phase = "enriching"]
  /\ notifications' = Append(notifications, progress')
  /\ agents' = SortByConfidence(agentMap)
  /\ pc' = "blame"
  /\ UNCHANGED <<tree, inRepo, options, error, files, idx, touched, analysis, agentMap,
                 dependencyEvidence, envEvidence, blameQueries, result, scanB>>

FileAt(path) == CHOOSE f \in Range(files) : f.path = path

\* the loop of enrichWithGitBlame without the cache: one query per agent
RECURSIVE BlameLoop_NoCache(_, _)
BlameLoop_NoCache(acc, order) ==
  IF order = <<>> THEN acc
  ELSE LET i == Head(order)
           filePath == acc.map[i].filePath
           blame == getFileBlame(FileAt(filePath).log)
       IN BlameLoop_NoCache([map |-> [acc.map EXCEPT ![i].owner = blame.owner,
                                                     ![i].lastModified = blame.lastModified],
                             cache |-> acc.cache,
                             queries |-> Append(acc.queries, filePath)],
                            Tail(order))

\* the loop of enrichWithGitBlame: acc is [map, cache, queries], cache the
\* set of paths already queried
RECURSIVE BlameLoop(_, _)
BlameLoop(acc, order) ==
  IF order = <<>> THEN acc
  ELSE LET i == Head(order)
           filePath == acc.map[i].filePath
           miss == filePath \notin acc.cache
           blame == getFileBlame(FileAt(filePath).log)
       IN BlameLoop([map |-> [acc.map EXCEPT ![i].owner = blame.owner,
                                             ![i].lastModified = blame.lastModified],
                     cache |-> acc.cache \cup {filePath},
                     queries |-> IF miss THEN Append(acc.queries, filePath)
                                 ELSE acc.queries],
                    Tail(order))

\* enrichWithGitBlame that runs the loop whatever isGitRepo answers
GitBlame_AlwaysQueries ==
  /\ pc = "blame"
  /\ \E r \in BOOLEAN : inRepo' = r
  /\ LET out == BlameLoop([map |-> agentMap, cache |-> {}, queries |-> <<>>], agents)
     IN /\ agentMap' = out.map
        /\ blameQueries' = out.queries
  /\ pc' = "risks"
  /\ UNCHANGED <<tree, options, error, files, idx, touched, analysis,
                 dependencyEvidence, envEvidence, progress, notifications, agents, result, scanB>>

\* enrichWithGitBlame(agents, scanPath)
GitBlame ==
  /\ pc = "blame"
  /\ \E r \in BOOLEAN :
       /\ inRepo' = r
       /\ IF r
          THEN LET out == BlameLoop([map |-> agentMap, cache |-> {}, queries |-> <<>>], agents)
               IN /\ agentMap' = out.map
                  /\ blameQueries' = out.queries
          ELSE UNCHANGED <<agentMap, blameQueries>>
  /\ pc' = "risks"
  /\ UNCHANGED <<tree, options, error, files, idx, touched, analysis,
                 dependencyEvidence, envEvidence, progress, notifications, agents, result, scanB>>

RECURSIVE Breakdown(_, _)
Breakdown(map, order) ==
  IF order = <<>> THEN <<>>
  ELSE LET rest == Breakdown(map, SubSeq(order, 1, Len(order) - 1))
           fw == map[order[Len(order)]].framework
           at == {i \in 1..Len(rest) : rest[i].framework = fw}
       IN IF at = {} THEN Append(rest, [framework |-> fw, count |-> 1])
          ELSE [i \in 1..Len(rest) |->
                  IF i \in at THEN [rest[i] EXCEPT !.count = @ + 1] ELSE rest[i]]

\* enrichWithRisks(agents), the change to phase complete and the result
Complete ==
  /\ pc = "risks"
  /\ \E out \in {enrichWithRisks(agentMap, agents)} :
        /\ agentMap' = out.map
        /\ progress' = [progress EXCEPT !.phase = "complete"]
        /\ notifications' = Append(notifications, progress')
        /\ result' = [summary |-> [totalAgents |-> Len(agents), totalFiles |-> Len(files)],
                      agents |-> [k \in 1..Len(agents) |-> out.map[agents[k]]],
                      frameworkBreakdown |-> Breakdown(out.map, agents),
                      risks |-> out.risks,
                      metadata |-> [confidenceThreshold |-> options.confidenceThreshold]]
  /\ pc' = "done"
  /\ UNCHANGED <<tree, inRepo, options, error, files, idx, touched, analysis,
                 dependencyEvidence, envEvidence, agents, blameQueries, scanB>>

Next ==
  \/ ScanGithub
  \/ ScanStart
  \/ Discover
  \/ ProcessFile
  \/ FoldDependencies
  \/ FoldEnvVars
  \/ BeginEnriching
  \/ GitBlame
  \/ Complete

Spec == Init /\ [][Next]_vars

\* the files whose stat, read or revision-history query fails, with files
\* where they succeed; one of them makes an agent record
LivePaths ==
  {"src/app.ts", "requirements.txt", ".env.local", "big.py", "locked.py", "gone.py"}

InitLive ==
  /\ Init
  /\ \A k \in 1..Len(tree) : tree[k].path \in LivePaths

\* scanLocal is a sequence of awaited calls, each of which settles (with a
\* value or an error): a step that can be taken is taken
SpecLive == InitLive /\ [][Next]_vars /\ WF_vars(Next)

\* ------------------------------------------------------ two scans compared
\* Two scans run in step over trees with the same paths: the first in the
\* scan variables, the second in scanB.  The second tree is the first one
\* with the text of its .env file replaced.
InitPair ==
  /\ tree \in Trees
  /\ \E t \in EnvTextChoices : scanB = [NoScanB EXCEPT !.tree = WithEnvText(tree, t)]
  /\ inRepo = FALSE
  /\ pc = "pairIdle"
  /\ options = NoOptions
  /\ error = ""
  /\ files = <<>>
  /\ idx = 1
  /\ touched = {}
  /\ analysis = NoAnalysis
  /\ agentMap = <<>>
  /\ dependencyEvidence = <<>>
  /\ envEvidence = <<>>
  /\ progress = NoProgress
  /\ notifications = <<>>
  /\ agents = <<>>
  /\ blameQueries = <<>>
  /\ result = NoResult

\* both scans are called, with the same options but for the threshold, and
\* discover their files
PairStart ==
  /\ pc = "pairIdle"
  /\ \E o \in ScanOptionsSet, tB \in ThresholdChoices :
       /\ ~o.github
       /\ o.confidenceThreshold <= tB
       /\ options' = o
       /\ files' = Candidates(tree, o.maxFiles)
       /\ scanB' = [scanB EXCEPT !.confidenceThreshold = tB,
                                 !.files = Candidates(scanB.tree, o.maxFiles)]
  /\ idx' = 1
  /\ pc' = "pairScanning"
  /\ UNCHANGED <<tree, inRepo, error, touched, analysis, agentMap, dependencyEvidence,
                 envEvidence, progress, notifications, agents, blameQueries, result>>

\* both scans run one iteration of the file loop
PairFile ==
  /\ pc = "pairScanning"
  /\ idx <= Len(files)
  /\ \E out \in {FileStep(ScanState(agentMap, dependencyEvidence, envEvidence, progress,
                                    notifications, analysis),
                          files[idx], options.confidenceThreshold)} :
       /\ agentMap' = out.agentMap
       /\ dependencyEvidence' = out.dependencyEvidence
       /\ envEvidence' = out.envEvidence
       /\ progress' = out.progress
       /\ notifications' = out.notifications
       /\ analysis' = out.analysis
  /\ \E outB \in {FileStep(scanB.state, scanB.files[idx], scanB.confidenceThreshold)} :
       scanB' = [scanB EXCEPT !.state = outB]
  /\ touched' = touched \cup {files[idx].path}
  /\ idx' = idx + 1
  /\ UNCHANGED <<tree, inRepo, pc, options, error, files, agents, blameQueries, result>>

\* both scans fold the dependency and env evidence in and sort
PairFold ==
  /\ pc = "pairScanning"
  /\ idx > Len(files)
  /\ agentMap' = enrichWithEnvVars(enrichWithDependencies(agentMap, dependencyEvidence),
                                   envEvidence)
  /\ agents' = SortByConfidence(agentMap')
  /\ \E m \in {enrichWithEnvVars(
                 enrichWithDependencies(scanB.state.agentMap, scanB.state.dependencyEvidence),
                 scanB.state.envEvidence)} :
       scanB' = [scanB EXCEPT !.state.agentMap = m, !.agents = SortByConfidence(m)]
  /\ pc' = "pairDone"
  /\ UNCHANGED <<tree, inRepo, options, error, files, idx, touched, analysis,
                 dependencyEvidence, envEvidence, progress, notifications, blameQueries,
                 result>>

NextPair ==
  \/ PairStart
  \/ PairFile
  \/ PairFold

SpecPair == InitPair /\ [][NextPair]_vars

\* ------------------------------------------------------------------ claims
Records == Range(agentMap) \cup Range(result.agents)

PairOf(rec) == <<rec.framework, rec.filePath>>

HasEvidenceOfType(rec, ty) == \E i \in 1..Len(rec.evidence) : rec.evidence[i].type = ty

\* C1: in every state of a scan, and in the returned ScanResult, every
\* AgentRecord has a confidence between 0 and 1.
C1_ConfidenceInRange ==
  \A rec \in Records : 0 <= rec.confidence /\ rec.confidence <= ONE

\* a finished scan with a record that dependency and env evidence were folded
\* into and whose confidence reached the cap
C1_Witness ==
  /\ pc = "done"
  /\ \E rec \in Range(result.agents) :
       /\ rec.confidence = ONE
       /\ HasEvidenceOfType(rec, "dependency")
       /\ HasEvidenceOfType(rec, "env_var")

\* C2: at every point of a scan and in the returned ScanResult no two
\* AgentRecords share the same (framework, file path) pair.
C2_UniquePairs ==
  /\ \A i, j \in 1..Len(agentMap) :
       i # j => PairOf(agentMap[i]) # PairOf(agentMap[j])
  /\ \A i, j \in 1..Len(result.agents) :
       i # j => PairOf(result.agents[i]) # PairOf(result.agents[j])

\* a finished scan with two records of one framework and two records of one
\* file
C2_Witness ==
  /\ pc = "done"
  /\ \E i, j \in 1..Len(result.agents) :
       /\ result.agents[i].framework = result.agents[j].framework
       /\ result.agents[i].filePath # result.agents[j].filePath
  /\ \E i, j \in 1..Len(result.agents) :
       /\ result.agents[i].framework # result.agents[j].framework
       /\ result.agents[i].filePath = result.agents[j].filePath

\* C3: the evidence list that analyzeFile produces for one framework holds at
\* most one evidence item per pattern, for files of any supported language.
C3_OncePerPattern ==
  \A d \in Range(analysis.detections) :
    \A i, j \in 1..Len(d.evidence) :
      i # j => d.evidence[i].pattern # d.evidence[j].pattern

\* C4: every record of the Agent Registry and of the returned ScanResult has a
\* confidence that meets the confidence threshold of the scan.
C4_MeetsThreshold ==
  /\ \A rec \in Range(agentMap) : rec.confidence >= options.confidenceThreshold
  /\ pc = "done" =>
       \A rec \in Range(result.agents) :
         rec.confidence >= result.metadata.confidenceThreshold

Sorted(recs) ==
  \A k \in 2..Len(recs) : recs[k - 1].confidence >= recs[k].confidence

\* C5: from the sort on, the agents list is in descending order of the
\* confidence the records have after the fold-in, and so is the list of the
\* returned ScanResult.
C5_SortedByConfidence ==
  /\ pc \in {"blame", "risks", "done"} =>
       Sorted([k \in 1..Len(agents) |-> agentMap[agents[k]]])
  /\ pc = "done" => Sorted(result.agents)

\* a finished scan whose registry, in insertion order, is not in descending
\* order of confidence, and in which the fold-in raised a confidence
C5_Witness ==
  /\ pc = "done"
  /\ \E i, j \in 1..Len(agentMap) : i < j /\ agentMap[i].confidence < agentMap[j].confidence
  /\ \E rec \in Range(result.agents) : HasEvidenceOfType(rec, "dependency")

MaxMatchedText == MATCH_MAX_LEN + 3

\* C7: every evidence item of every record has a confidence contribution
\* between 0 and 1 and a matched text of at most 203 characters.
C7_EvidenceBounds ==
  \A rec \in Records :
    \A i \in 1..Len(rec.evidence) :
      /\ 0 <= rec.evidence[i].confidenceContribution
      /\ rec.evidence[i].confidenceContribution <= ONE
      /\ Len(rec.evidence[i].matchedText) <= MaxMatchedText

PhaseRank(phase) ==
  CASE phase = "discovering" -> 1
    [] phase = "scanning" -> 2
    [] phase = "enriching" -> 3
    [] phase = "complete" -> 4
    [] OTHER -> 0

\* C9: the notifications of a scan start with phase discovering, their phases
\* never move backward in discovering < scanning < enriching < complete and
\* take no other value; a finished scan has notified each of the four phases
\* and its last notification has phase complete.
C9_PhaseOrder ==
  /\ notifications # <<>> => notifications[1].phase = "discovering"
  /\ \A i \in 1..Len(notifications) : PhaseRank(notifications[i].phase) >= 1
  /\ \A i \in 2..Len(notifications) :
       PhaseRank(notifications[i - 1].phase) <= PhaseRank(notifications[i].phase)
  /\ pc = "done" =>
       /\ {notifications[i].phase : i \in 1..Len(notifications)}
            = {"discovering", "scanning", "enriching", "complete"}
       /\ notifications[Len(notifications)].phase = "complete"

\* a finished scan that sent notifications from inside the file loop
C9_Witness ==
  /\ pc = "done"
  /\ Len(files) >= 2
  /\ Len(agentMap) >= 1
  /\ Len(notifications) > 4 + Len(files)

\* C10: a scan called with the github option fails with the not-implemented
\* error and does nothing else: no notification, no file discovered or read,
\* no ScanResult.
C10_GithubFailsAtOnce ==
  (pc # "idle" /\ options.github) =>
    /\ pc = "threw"
    /\ error = GithubError
    /\ notifications = <<>>
    /\ files = <<>>
    /\ touched = {}
    /\ agentMap = <<>>
    /\ result = NoResult

\* scan has thrown for a call with github set over a tree that holds files
C10_Witness ==
  /\ pc = "threw"
  /\ options.github
  /\ Len(tree) >= 1
  /\ error = GithubError

KeysOf(map) == {PairOf(map[i]) : i \in 1..Len(map)}

\* C6: of two scans of the same file set that differ only in the threshold,
\* the scan with the higher threshold holds a subset of the (framework, file
\* path) keys of the other one, and so no more agents.
C6_ThresholdMonotone ==
  (/\ pc \in {"pairScanning", "pairDone"}
   /\ scanB.tree = tree
   /\ options.confidenceThreshold < scanB.confidenceThreshold)
  => /\ KeysOf(scanB.state.agentMap) \subseteq KeysOf(agentMap)
     /\ Len(scanB.state.agentMap) <= Len(agentMap)
     /\ pc = "pairDone" => Len(scanB.agents) <= Len(agents)

\* two finished scans of one tree where the higher threshold kept some of the
\* agents of the lower one and dropped others
C6_Witness ==
  /\ pc = "pairDone"
  /\ scanB.tree = tree
  /\ options.confidenceThreshold < scanB.confidenceThreshold
  /\ Len(scanB.agents) >= 1
  /\ Len(scanB.agents) < Len(agents)

\* the keys of the lines of an env file, and its values
EnvLineKeys(text) ==
  LET lines == Split(text, "\n")
  IN [i \in 1..Len(lines) |-> FirstPiece(lines[i], {"="})]

EnvValues(text) ==
  LET lines == Split(text, "\n")
  IN {Trim(SubSeq(lines[i], Len(FirstPiece(lines[i], {"="})) + 2, Len(lines[i]))) :
        i \in {k \in 1..Len(lines) : Contains(lines[k], "=")}}

IsEnvFile(file) ==
  Basename(file.path) = ".env" \/ StartsWith(Basename(file.path), ".env.")

\* the two trees are the same but for the values after "=" in the env files
DifferOnlyInEnvValues ==
  /\ Len(scanB.tree) = Len(tree)
  /\ \A i \in 1..Len(tree) :
       /\ [scanB.tree[i] EXCEPT !.text = tree[i].text] = tree[i]
       /\ scanB.tree[i].text # tree[i].text =>
            /\ IsEnvFile(tree[i])
            /\ EnvLineKeys(scanB.tree[i].text) = EnvLineKeys(tree[i].text)

EnvEvidenceOf(rec) == SelectSeq(rec.evidence, LAMBDA e : e.type = "env_var")

SameEnvEvidence ==
  /\ scanB.state.envEvidence = envEvidence
  /\ Len(scanB.state.agentMap) = Len(agentMap)
  /\ \A i \in 1..Len(agentMap) :
       EnvEvidenceOf(scanB.state.agentMap[i]) = EnvEvidenceOf(agentMap[i])

AllEnvEvidence ==
  Range(envEvidence) \cup Range(scanB.state.envEvidence)
  \cup UNION {Range(EnvEvidenceOf(rec)) : rec \in Range(agentMap) \cup Range(scanB.state.agentMap)}

\* C8 as stated: two scans whose env files differ only in the values after
\* "=" produce identical env_var evidence, each with the marker "redacted".
C8_ValuesNeverMatter ==
  (/\ pc \in {"pairScanning", "pairDone"}
   /\ options.confidenceThreshold = scanB.confidenceThreshold
   /\ DifferOnlyInEnvValues)
  => /\ SameEnvEvidence
     /\ \A e \in AllEnvEvidence : Contains(e.matchedText, "redacted")

\* the texts of the files of the trees, and for each the provider patterns
\* that match it and the values it holds
TreeTexts == {f.text : f \in KnownFiles}

MatchingPatterns ==
  [t \in TreeTexts |-> {p.source : p \in {q \in Range(ENV_VAR_PATTERNS) : EnvTest(q, t)}}]

ValuesTable == [t \in TreeTexts |-> EnvValues(t)]

\* the provider patterns that match the env files among the candidate files
MatchedEnvPatterns(candidates) ==
  {<<candidates[i].path, MatchingPatterns[candidates[i].text]>> :
     i \in {k \in 1..Len(candidates) : IsEnvFile(candidates[k])}}

\* the matched text m holds the marker and no value of the env text t
Redacted(m, t) ==
  /\ Contains(m, "redacted")
  /\ \A v \in ValuesTable[t] : ~Contains(m, v)

RedactedTable ==
  [m \in {EnvMatchedText(p) : p \in Range(ENV_VAR_PATTERNS)} |->
     [t \in TreeTexts |-> Redacted(m, t)]]

IsRedacted(m, t) ==
  IF m \in DOMAIN RedactedTable THEN RedactedTable[m][t] ELSE Redacted(m, t)

\* C8 amended: the matched text of an env_var evidence item holds the marker
\* "redacted" and no value of an env file, and two scans whose env files
\* differ only in the values after "=" and match the same provider patterns
\* produce identical env_var evidence.
C8_EvidenceFromMatchedPatterns ==
  pc \in {"pairScanning", "pairDone"} =>
    /\ \A e \in AllEnvEvidence :
         \A f \in Range(tree) \cup Range(scanB.tree) :
            IsEnvFile(f) => IsRedacted(e.matchedText, f.text)
    /\ (/\ options.confidenceThreshold = scanB.confidenceThreshold
        /\ DifferOnlyInEnvValues
        /\ MatchedEnvPatterns(scanB.files) = MatchedEnvPatterns(files))
       => SameEnvEvidence

\* two finished scans whose env files hold different values and match the
\* same patterns, with env_var evidence attached to a record
C8_Witness ==
  /\ pc = "pairDone"
  /\ options.confidenceThreshold = scanB.confidenceThreshold
  /\ DifferOnlyInEnvValues
  /\ scanB.tree # tree
  /\ MatchedEnvPatterns(scanB.files) = MatchedEnvPatterns(files)
  /\ \E rec \in Range(agentMap) : Len(EnvEvidenceOf(rec)) >= 2

\* a file with a line that some pattern matches, and a file whose base name
\* is a recognized framework configuration file
HasSourceHit(file) == \E i \in 1..Len(file.lines) : file.lines[i] # {}

IsConfigFile(file) == Basename(file.path) \in {"crewai.yaml", "crewai.yml"}

\* the configuration files among the candidate files that the file loop does
\* not skip
ConfigCandidates ==
  {i \in 1..Len(files) : /\ IsConfigFile(files[i])
                         /\ files[i].statOk
                         /\ files[i].size <= MAX_FILE_SIZE}

\* the sum of half the contributions of the dependency evidence of a record,
\* and the number of its env_var evidence items
RECURSIVE HalfDependencySum(_)
HalfDependencySum(ev) ==
  IF ev = <<>> THEN 0
  ELSE (IF Head(ev).type = "dependency" THEN Head(ev).confidenceContribution \div 2 ELSE 0)
       + HalfDependencySum(Tail(ev))

C12_NoRepoLeavesOwnershipUnset ==
  (pc \in {"risks", "done"} /\ ~inRepo)
  => /\ blameQueries = <<>>
     /\ error = ""
     /\ \A rec \in Records : rec.owner = Undefined /\ rec.lastModified = -1
     /\ pc = "done" => /\ result # NoResult
                       /\ \A k \in 1..Len(result.agents) :
                            result.agents[k].owner = Undefined

\* a finished scan outside revision control with a record for a file whose
\* history names an author
C12_Witness ==
  /\ pc = "done"
  /\ ~inRepo
  /\ \E k \in 1..Len(result.agents) :
       /\ getFileBlame(FileAt(result.agents[k].filePath).log).owner # Undefined
       /\ result.agents[k].owner = Undefined
       /\ result.agents[k].lastModified = -1

\* the candidate files the scan cannot use: stat fails, the size is over the
\* ceiling, the file cannot be read, or it is a package.json that does not parse
Unusable(file) ==
  \/ ~file.statOk
  \/ file.size > MAX_FILE_SIZE
  \/ ~file.readOk
  \/ Basename(file.path) = "package.json" /\ ~file.pkg.valid

\* every evidence item the scan holds
AllEvidence ==
  Range(dependencyEvidence) \cup Range(envEvidence)
  \cup UNION {Range(rec.evidence) : rec \in Records}

\* at the end every candidate file was visited and each usable source file
\* that comes after an unusable one has its records
LaterFilesProcessed(unusable(_)) ==
  pc = "done" =>
    /\ result # NoResult
    /\ \A i \in 1..Len(files) :
         /\ files[i].path \in touched
         /\ (/\ \E j \in 1..(i - 1) : unusable(files[j])
             /\ ~Unusable(files[i])
             /\ AnalysesTable[files[i]].ext \in LanguageExtensionKeys)
            => \A d \in Range(AnalysesTable[files[i]].analysis.detections) :
                 MeetsThreshold(d.totalConfidence, options.confidenceThreshold)
                 => \E rec \in Range(result.agents) :
                      PairOf(rec) = <<d.framework, files[i].path>>

\* C13 as stated: a file that cannot be stat-ed or read, an oversized file and
\* a package.json that does not parse contribute no record and no evidence,
\* raise no error, and the files after them are still processed.
C13_UnusableFilesContributeNothing ==
  pc \in {"scanning", "foldEnv", "folded", "blame", "risks", "done"} =>
    /\ error = ""
    /\ \A f \in Range(files) :
         Unusable(f) => /\ \A rec \in Records : rec.filePath # f.path
                        /\ \A e \in AllEvidence : e.filePath # f.path
    /\ LaterFilesProcessed(Unusable)

\* a configuration file is recognized by its name and never read
ReadByScan(file) == ~IsConfigFile(file)

Skipped(file) ==
  \/ ~file.statOk
  \/ file.size > MAX_FILE_SIZE
  \/ ~file.readOk /\ ReadByScan(file)
  \/ Basename(file.path) = "package.json" /\ ~file.pkg.valid

\* C13 amended: a file that cannot be stat-ed, an oversized file, a source,
\* manifest or env file that cannot be read and a package.json that does not
\* parse contribute no record and no evidence, raise no error, and the files
\* after them are still processed; a configuration file that can be stat-ed
\* but not read still yields its record.
C13_SkippedFilesContributeNothing ==
  pc \in {"scanning", "foldEnv", "folded", "blame", "risks", "done"} =>
    /\ error = ""
    /\ \A f \in Range(files) :
         Skipped(f) => /\ \A rec \in Records : rec.filePath # f.path
                       /\ \A e \in AllEvidence : e.filePath # f.path
    /\ LaterFilesProcessed(Skipped)
    /\ pc = "done" =>
         \A i \in ConfigCandidates :
            \E rec \in Range(result.agents) : PairOf(rec) = <<"crewai", files[i].path>>

\* a finished scan that met an unreadable source file and then a usable one
\* that has its record
C13_Witness ==
  /\ pc = "done"
  /\ \E i, j \in 1..Len(files) :
       /\ j < i
       /\ files[j].statOk /\ ~files[j].readOk /\ HasSourceHit(files[j])
       /\ ~Unusable(files[i])
       /\ \E rec \in Range(result.agents) : rec.filePath = files[i].path

\* the positions in the tree of the files the ignore filter keeps
IgnoresTable == [path \in {f.path : f \in KnownFiles} |-> Ignores(path)]

KeptPositions == {i \in 1..Len(tree) : ~IgnoresTable[tree[i].path]}

\* the position in the tree of the k-th file the ignore filter keeps
KeptAt(k) == CHOOSE i \in KeptPositions : Cardinality({j \in KeptPositions : j <= i}) = k

\* C14: the candidate files are the first maxFiles files, in discovery order,
\* of those that survive the ignore filter; totalFiles is at most maxFiles,
\* and no file beyond the cap is read or contributes evidence.
C14_FirstMaxFilesAfterFilter ==
  pc \in {"scanning", "foldEnv", "folded", "blame", "risks", "done"} =>
    /\ Len(files) = Min(Cardinality(KeptPositions), options.maxFiles)
    /\ \A k \in 1..Len(files) : files[k] = tree[KeptAt(k)]
    /\ touched \subseteq {files[k].path : k \in 1..Len(files)}
    /\ \A e \in AllEvidence : \E k \in 1..Len(files) : e.filePath = files[k].path
    /\ \A rec \in Records : \E k \in 1..Len(files) : rec.filePath = files[k].path
    /\ pc = "done" => /\ result.summary.totalFiles = Len(files)
                      /\ result.summary.totalFiles <= options.maxFiles

\* a finished scan that reached the cap and left out a file that would have
\* given a record
C14_Witness ==
  /\ pc = "done"
  /\ Len(files) = options.maxFiles
  /\ Len(result.agents) >= 1
  /\ \E i \in KeptPositions :
       /\ \A k \in 1..Len(files) : files[k] # tree[i]
       /\ ~Unusable(tree[i])
       /\ HasSourceHit(tree[i])
       /\ tree[i].path \notin touched

\* ------------------------------------------------- enrichWithRisks on a list
\* enrichWithRisks is exported and takes any list of records; the lists here
\* are built from the records of the risk tests.

MaxAgents == 22

\* makeAgent of the risk tests: a langchain record of confidence 0.9, no evidence
makeAgent(k, framework, owner, confidence, evidence) ==
  [key |-> k, framework |-> framework, confidence |-> confidence,
   filePath |-> "test/agent.py", language |-> "python", entryPoint |-> Undefined,
   owner |-> owner, lastModified |-> -1, evidence |-> evidence, risks |-> <<>>]

\* the kinds of record a list is made of
AgentKinds ==
  << [framework |-> "langchain", owner |-> "Jane Doe", confidence |-> 900, evidence |-> <<>>],
     [framework |-> "crewai", owner |-> Undefined, confidence |-> 500,
      evidence |-> <<Evidence("import", "tool", EmailText, "test/agent.py", 1, 500)>>],
     [framework |-> "autogen", owner |-> "Jane Doe", confidence |-> 900, evidence |-> <<>>],
     [framework |-> "openai-assistants", owner |-> "Jane Doe", confidence |-> 900,
      evidence |-> <<>>],
     [framework |-> "llamaindex", owner |-> "Jane Doe", confidence |-> 900, evidence |-> <<>>] >>

\* the kind of the last record of the list, 1 for the empty list
LastKind ==
  IF agentMap = <<>> THEN 1
  ELSE LET last == agentMap[Len(agentMap)]
       IN CHOOSE k \in 1..Len(AgentKinds) : AgentKinds[k].framework = last.framework

InitRisk ==
  /\ tree = <<>>
  /\ inRepo = FALSE
  /\ pc = "riskInput"
  /\ options = NoOptions
  /\ error = ""
  /\ files = <<>>
  /\ idx = 1
  /\ touched = {}
  /\ analysis = NoAnalysis
  /\ agentMap = <<>>
  /\ dependencyEvidence = <<>>
  /\ envEvidence = <<>>
  /\ progress = NoProgress
  /\ notifications = <<>>
  /\ agents = <<>>
  /\ blameQueries = <<>>
  /\ result = NoResult
  /\ scanB = NoScanB

\* the caller adds a record to the list it will hand over
RiskAddAgent ==
  /\ pc = "riskInput"
  /\ Len(agentMap) < MaxAgents
  /\ \E kind \in {k \in 1..Len(AgentKinds) : k >= LastKind /\ k <= LastKind + 1} :
       LET rec(a) == makeAgent(Len(agentMap) + 1, a.framework, a.owner,
                               a.confidence, a.evidence)
       IN agentMap' = Append(agentMap, rec(AgentKinds[kind]))
  /\ agents' = Append(agents, Len(agentMap) + 1)
  /\ UNCHANGED <<tree, inRepo, pc, options, error, files, idx, touched, analysis,
                 dependencyEvidence, envEvidence, progress, notifications,
                 blameQueries, result, scanB>>

\* the call enrichWithRisks(agents)
RiskEvaluate ==
  /\ pc = "riskInput"
  /\ \E out \in {enrichWithRisks(agentMap, agents)} :
        /\ agentMap' = out.map
        /\ result' = [NoResult EXCEPT !.risks = out.risks]
  /\ pc' = "riskDone"
  /\ UNCHANGED <<tree, inRepo, options, error, files, idx, touched, analysis,
                 dependencyEvidence, envEvidence, progress, notifications, agents,
                 blameQueries, scanB>>

NextRisk ==
  \/ RiskAddAgent
  \/ RiskEvaluate

SpecRisk == InitRisk /\ [][NextRisk]_vars

\* the number of flags of a list with a given type / severity
FlagsOfType(flags, ty) == Cardinality({i \in 1..Len(flags) : flags[i].type = ty})
FlagsOfSeverity(flags, sev) == Cardinality({i \in 1..Len(flags) : flags[i].severity = sev})

RECURSIVE RecordFlags(_)
RecordFlags(map) == IF map = <<>> THEN <<>> ELSE Head(map).risks \o RecordFlags(Tail(map))

FrameworksOf(map) == {map[k].framework : k \in 1..Len(map)}

\* C16: enrichWithRisks adds exactly one framework-sprawl flag, of severity
\* medium and counted once in the medium count, when the list holds at least
\* 4 distinct frameworks, and none otherwise; the flag is in the details only,
\* never in the risks of a record.
C16_FrameworkSprawlFlag ==
  pc = "riskDone" =>
    LET details == result.risks.details
        expected == IF Cardinality(FrameworksOf(agentMap)) >= 4 THEN 1 ELSE 0
    IN /\ FlagsOfType(details, "framework-sprawl") = expected
       /\ \A i \in 1..Len(details) :
            details[i].type = "framework-sprawl" => details[i].severity = "medium"
       /\ result.risks.medium = FlagsOfSeverity(RecordFlags(agentMap), "medium") + expected
       /\ FlagsOfType(RecordFlags(agentMap), "framework-sprawl") = 0
       /\ Len(details) = Len(RecordFlags(agentMap)) + expected
                           + FlagsOfType(details, "high-agent-count")

C16_Witness ==
  /\ pc = "riskDone"
  /\ Cardinality(FrameworksOf(agentMap)) = 4
  /\ Len(agentMap) > 4
  /\ FlagsOfType(result.risks.details, "framework-sprawl") = 1
  /\ result.risks.medium > 1

\* C17: a scan of a tree where no source file matches a pattern and no
\* framework configuration file is present returns no agents, an empty
\* framework breakdown, four zero severity counts and no risk details, also
\* when manifests and environment files of the tree have matching entries.
C17_NoAgentsWithoutSourceOrConfig ==
  (/\ pc = "done"
   /\ \A i \in 1..Len(tree) : ~HasSourceHit(tree[i]) /\ ~IsConfigFile(tree[i]))
  => /\ result.summary.totalAgents = 0
     /\ result.agents = <<>>
     /\ result.frameworkBreakdown = <<>>
     /\ result.risks = [critical |-> 0, high |-> 0, medium |-> 0, low |-> 0,
                        details |-> <<>>]

C17_Witness ==
  /\ pc = "done"
  /\ \A i \in 1..Len(tree) : ~HasSourceHit(tree[i]) /\ ~IsConfigFile(tree[i])
  /\ dependencyEvidence # <<>>
  /\ envEvidence # <<>>
  /\ result.summary.totalAgents = 0
  /\ result.summary.totalFiles > 1

\* ------------------------------------------- calculateConfidence on a list
\* calculateConfidence is called on the evidence of one (framework, file)
\* pair; its items carry the type and confidence of the pattern that matched.

MaxEvidence == 3

\* confidence values of the pattern definitions, in thousandths
PatternConfidences == {150, 250, 300, 350}

EvidenceItems ==
  {Evidence(ty, "pattern", "text", "test.py", 1, conf) :
     ty \in {"import", "instantiation"}, conf \in PatternConfidences}

EvidenceLists == UNION {[1..n -> EvidenceItems] : n \in 0..MaxEvidence}

InitConfidence ==
  /\ tree = <<>>
  /\ inRepo = FALSE
  /\ pc = "confidenceInput"
  /\ options = NoOptions
  /\ error = ""
  /\ files = <<>>
  /\ idx = 1
  /\ touched = {}
  /\ analysis = NoAnalysis
  /\ agentMap = <<>>
  /\ dependencyEvidence = <<>>
  /\ envEvidence = <<>>
  /\ progress = NoProgress
  /\ notifications = <<>>
  /\ agents = <<>>
  /\ blameQueries = <<>>
  /\ result = NoResult
  /\ scanB = NoScanB

\* the detection made of an evidence list: totalConfidence is
\* calculateConfidence(evidence)
Detect ==
  /\ pc = "confidenceInput"
  /\ \E evidence \in EvidenceLists :
       analysis' = [filePath |-> "test.py", language |-> "python",
                    detections |-> <<[framework |-> "langchain",
                                      displayName |-> "LangChain",
                                      evidence |-> evidence,
                                      totalConfidence |-> calculateConfidence(evidence)]>>]
  /\ pc' = "confidenceDone"
  /\ UNCHANGED <<tree, inRepo, options, error, files, idx, touched, agentMap,
                 dependencyEvidence, envEvidence, progress, notifications, agents,
                 blameQueries, result, scanB>>

NextConfidence == Detect

SpecConfidence == InitConfidence /\ [][NextConfidence]_vars

RECURSIVE ContributionSum(_)
ContributionSum(ev) ==
  IF ev = <<>> THEN 0
  ELSE ev[Len(ev)].confidenceContribution + ContributionSum(SubSeq(ev, 1, Len(ev) - 1))

\* rounding of thousandths to two decimal places, halves upwards
Round2(x) == IF x % 10 >= 5 THEN x - (x % 10) + 10 ELSE x - (x % 10)

\* C18: calculateConfidence of a non-empty evidence list is
\* min(1.0, round2(S + B)), S the sum of the contributions and B 0.10 when
\* the list has two or more distinct categories and 0 otherwise; of the
\* empty list it is 0.
C18_ConfidenceFormula ==
  pc = "confidenceDone" =>
    LET d == analysis.detections[1]
        S == ContributionSum(d.evidence)
        B == IF \E i, j \in 1..Len(d.evidence) : d.evidence[i].type # d.evidence[j].type
             THEN 100 ELSE 0
    IN IF d.evidence = <<>> THEN d.totalConfidence = 0
       ELSE d.totalConfidence = (IF Round2(S + B) > 1000 THEN 1000 ELSE Round2(S + B))

C18_Witness ==
  /\ pc = "confidenceDone"
  /\ Len(analysis.detections[1].evidence) = 2
  /\ analysis.detections[1].evidence[1].type # analysis.detections[1].evidence[2].type
  /\ analysis.detections[1].totalConfidence = 650

\* the record holds evidence of the given type and pattern
Holds(agent, ty, pattern) ==
  \E i \in 1..Len(agent.evidence) :
    agent.evidence[i].type = ty /\ agent.evidence[i].pattern = pattern

\* the number of evidence items of the record with the given type and pattern
HeldCount(agent, ty, pattern) ==
  Cardinality({i \in 1..Len(agent.evidence) :
                 agent.evidence[i].type = ty /\ agent.evidence[i].pattern = pattern})

\* the positions of the dependency items a record is due: mapped to its
\* framework, not held already, the first of their pattern in the list
DueDependencies(agent, deps) ==
  {k \in 1..Len(deps) :
     /\ \E m \in 1..Len(DEPENDENCY_MAPPINGS) :
          /\ DEPENDENCY_MAPPINGS[m].name = deps[k].pattern
          /\ DEPENDENCY_MAPPINGS[m].framework = agent.framework
     /\ ~Holds(agent, "dependency", deps[k].pattern)
     /\ \A j \in 1..(k - 1) : deps[j].pattern # deps[k].pattern}

\* the items of a list at a set of positions, in list order
RECURSIVE ItemsAt(_, _, _)
ItemsAt(list, positions, k) ==
  IF k > Len(list) THEN <<>>
  ELSE (IF k \in positions THEN <<list[k]>> ELSE <<>>) \o ItemsAt(list, positions, k + 1)

RECURSIVE HalfSum(_)
HalfSum(items) ==
  IF items = <<>> THEN 0
  ELSE Head(items).confidenceContribution \div 2 + HalfSum(Tail(items))

AfterDependencies(agent, due) ==
  [agent EXCEPT !.evidence = agent.evidence \o due,
                !.confidence = IF agent.confidence + HalfSum(due) > 1000 THEN 1000
                               ELSE agent.confidence + HalfSum(due)]

\* C19: enrichWithDependencies appends each dependency item D to exactly the
\* records of the framework D is mapped to that hold no dependency evidence
\* with D's pattern, adding half of D's contribution to their confidence,
\* capped at 1.0; the other records are unchanged, and no record ends with
\* two dependency items of one pattern.
C19_DependencyFold ==
  [][(pc = "scanning" /\ pc' = "foldEnv") =>
       /\ Len(agentMap') = Len(agentMap)
       /\ \A i \in 1..Len(agentMap) :
            /\ agentMap'[i] =
                 AfterDependencies(agentMap[i],
                   ItemsAt(dependencyEvidence,
                           DueDependencies(agentMap[i], dependencyEvidence), 1))
            /\ \A k \in 1..Len(dependencyEvidence) :
                 HeldCount(agentMap'[i], "dependency", dependencyEvidence[k].pattern) <= 1]_vars

\* a record of crewai took the crewai dependency of the first of two manifests
\* that declare it, next to a record of another framework that took nothing
C19_Witness ==
  /\ pc = "foldEnv"
  /\ \E j, k \in 1..Len(dependencyEvidence) :
       /\ j < k
       /\ dependencyEvidence[j].pattern = dependencyEvidence[k].pattern
       /\ dependencyEvidence[j].filePath # dependencyEvidence[k].filePath
       /\ \E i \in 1..Len(agentMap) :
            /\ HeldCount(agentMap[i], "dependency", dependencyEvidence[j].pattern) = 1
            /\ dependencyEvidence[j] \in Range(agentMap[i].evidence)
            /\ dependencyEvidence[k] \notin Range(agentMap[i].evidence)

\* the positions of the env_var items a record is due: not held already, the
\* first of their pattern in the list
DueEnvVars(agent, envs) ==
  {k \in 1..Len(envs) :
     /\ ~Holds(agent, "env_var", envs[k].pattern)
     /\ \A j \in 1..(k - 1) : envs[j].pattern # envs[k].pattern}

AfterEnvVars(agent, due) ==
  [agent EXCEPT !.evidence = agent.evidence \o due,
                !.confidence = IF agent.confidence + 50 * Len(due) > 1000 THEN 1000
                               ELSE agent.confidence + 50 * Len(due)]

\* C20: enrichWithEnvVars appends each env_var item E to every record, of any
\* framework, that holds no env_var evidence with E's pattern, adding exactly
\* 0.05 to its confidence, capped at 1.0; of several environment files that
\* match one pattern only the first is attached, and no record ends with two
\* env_var items of one pattern.
C20_EnvVarFold ==
  [][(pc = "foldEnv" /\ pc' = "folded") =>
       /\ Len(agentMap') = Len(agentMap)
       /\ \A i \in 1..Len(agentMap) :
            /\ agentMap'[i] =
                 AfterEnvVars(agentMap[i],
                   ItemsAt(envEvidence, DueEnvVars(agentMap[i], envEvidence), 1))
            /\ \A k \in 1..Len(envEvidence) :
                 HeldCount(agentMap'[i], "env_var", envEvidence[k].pattern) = 1]_vars

\* two environment files matched one pattern; a record holds the item of the
\* first file only, and its contribution is not the 0.05 that was added
C20_Witness ==
  /\ pc = "folded"
  /\ \E j, k \in 1..Len(envEvidence) :
       /\ j < k
       /\ envEvidence[j].pattern = envEvidence[k].pattern
       /\ envEvidence[j].filePath # envEvidence[k].filePath
       /\ envEvidence[j].confidenceContribution # 50
       /\ \E i \in 1..Len(agentMap) :
            /\ agentMap[i].confidence < 1000
            /\ envEvidence[j] \in Range(agentMap[i].evidence)
            /\ envEvidence[k] \notin Range(agentMap[i].evidence)

\* a notification with the given phase has been passed to onProgress
Notified(phase) == \E n \in 1..Len(notifications) : notifications[n].phase = phase

\* C21: every evidence addition and confidence increase of the fold-in
\* (enrichWithDependencies, enrichWithEnvVars) happens after the first
\* notification with phase enriching and before the one with phase complete.
C21_FoldInWhileEnriching ==
  [][(pc' \in {"foldEnv", "folded"} /\ agentMap' # agentMap) =>
       Notified("enriching") /\ ~Notified("complete")]_vars

\* C22: a file named exactly .env of the tree (the tree has no ignore file
\* and the call no exclusion patterns; the maxFiles cap is not reached) is a
\* candidate file, is analysed by analyzeEnvFile, and its provider-key lines
\* yield env_var evidence on every agent record.
C22_DotEnvIsScanned ==
  (pc = "done" /\ Len(tree) <= options.maxFiles) =>
    \A i \in 1..Len(tree) :
      (Basename(tree[i].path) = ".env" /\ tree[i].statOk /\ tree[i].readOk
       /\ tree[i].size <= MAX_FILE_SIZE) =>
        /\ \E k \in 1..Len(files) : files[k] = tree[i]
        /\ \A e \in Range(analyzeEnvFile(tree[i].text, tree[i].path)) :
             /\ \E k \in 1..Len(envEvidence) : envEvidence[k] = e
             /\ \A a \in 1..Len(result.agents) :
                  Holds(result.agents[a], "env_var", e.pattern)

\* C23: in a repository enrichWithGitBlame queries each distinct file path
\* of the agents once, however many agents share it, and agents that share a
\* file path end with the same owner and the same lastModified.
C23_OneBlameQueryPerPath ==
  (pc \in {"risks", "done"} /\ inRepo) =>
    /\ \A j, k \in 1..Len(blameQueries) : blameQueries[j] = blameQueries[k] => j = k
    /\ Range(blameQueries) = {agentMap[agents[k]].filePath : k \in 1..Len(agents)}
    /\ \A j, k \in 1..Len(agents) :
         agentMap[agents[j]].filePath = agentMap[agents[k]].filePath =>
           /\ agentMap[agents[j]].owner = agentMap[agents[k]].owner
           /\ agentMap[agents[j]].lastModified = agentMap[agents[k]].lastModified

C23_Witness ==
  /\ pc = "done"
  /\ inRepo
  /\ Len(blameQueries) = 2
  /\ Len(agents) = 3
  /\ \E j, k \in 1..Len(agents) :
       /\ j # k
       /\ agentMap[agents[j]].filePath = agentMap[agents[k]].filePath
       /\ agentMap[agents[j]].owner # Undefined
       /\ agentMap[agents[j]].owner = agentMap[agents[k]].owner

\* ------------------------------------------------ getFileBlame on one log
\* One record on one file; the revision log of the file is any list of at
\* most MaxLog entries, or a query that fails.

MaxLog == 4

AuthorNames == {"", "alice", "bob"}

\* the logs of n entries, most recent first; the k-th entry is k months old
LogsOfLength(n) ==
  {[k \in 1..n |-> Entry(names[k], k)] : names \in [1..n -> AuthorNames]}

Logs ==
  {NoLog} \cup {[ok |-> TRUE, all |-> all] : all \in UNION {LogsOfLength(n) : n \in 0..MaxLog}}

InitBlame ==
  /\ tree \in {<<File("test/agent.py", TRUE, 120, TRUE, <<>>, "", NoPkg, log)>> : log \in Logs}
  /\ inRepo = TRUE
  /\ pc = "blameInput"
  /\ options = NoOptions
  /\ error = ""
  /\ files = tree
  /\ idx = 1
  /\ touched = {}
  /\ analysis = NoAnalysis
  /\ agentMap = <<makeAgent(1, "langchain", Undefined, 900, <<>>)>>
  /\ dependencyEvidence = <<>>
  /\ envEvidence = <<>>
  /\ progress = NoProgress
  /\ notifications = <<>>
  /\ agents = <<1>>
  /\ blameQueries = <<>>
  /\ result = NoResult
  /\ scanB = NoScanB

\* enrichWithGitBlame on the record: one getFileBlame query
BlameQuery ==
  /\ pc = "blameInput"
  /\ LET out == BlameLoop([map |-> agentMap, cache |-> {}, queries |-> <<>>], agents)
     IN /\ agentMap' = out.map
        /\ blameQueries' = out.queries
  /\ pc' = "blameDone"
  /\ UNCHANGED <<tree, inRepo, options, error, files, idx, touched, analysis,
                 dependencyEvidence, envEvidence, progress, notifications, agents,
                 result, scanB>>

NextBlame == BlameQuery

SpecBlame == InitBlame /\ [][NextBlame]_vars

\* the names of a log, the number of entries of a name and its first entry
NamesIn(all) == {all[i].author_name : i \in 1..Len(all)} \ {""}
EntriesOf(all, a) == Cardinality({i \in 1..Len(all) : all[i].author_name = a})
FirstEntryOf(all, a) ==
  CHOOSE i \in 1..Len(all) :
    all[i].author_name = a /\ \A j \in 1..(i - 1) : all[j].author_name # a

\* a is the author with the most entries, the earliest among those tied
Leads(all, a) ==
  /\ a \in NamesIn(all)
  /\ \A b \in NamesIn(all) :
       \/ EntriesOf(all, a) > EntriesOf(all, b)
       \/ EntriesOf(all, a) = EntriesOf(all, b)
          /\ FirstEntryOf(all, a) <= FirstEntryOf(all, b)

C25_LowConfidenceBand ==
  pc = "done" =>
    \A k \in 1..Len(result.agents) :
      LET rec == result.agents[k]
      IN /\ FlagsOfType(rec.risks, "low-confidence") =
              (IF rec.confidence >= 400 /\ rec.confidence < 600 THEN 1 ELSE 0)
         /\ \A i \in 1..Len(rec.risks) :
              rec.risks[i].type = "low-confidence" => rec.risks[i].severity = "low"

C25_Witness ==
  /\ pc = "done"
  /\ options.confidenceThreshold = 0
  /\ \E k \in 1..Len(result.agents) :
       /\ result.agents[k].confidence < 400
       /\ FlagsOfType(result.agents[k].risks, "low-confidence") = 0
  /\ \E k \in 1..Len(result.agents) :
       FlagsOfType(result.agents[k].risks, "low-confidence") = 1

\* the types of the per-record rules, in the order of RISK_RULES
RuleTypes ==
  <<"no-owner", "stale-agent", "low-confidence", "database-access",
    "email-capability", "agent-spawning", "external-api">>

RuleIndex(ty) == CHOOSE r \in 1..Len(RuleTypes) : RuleTypes[r] = ty

\* the flags are of per-record rules, one per rule at most, in rule order
InRuleOrder(flags) ==
  /\ \A i \in 1..Len(flags) : flags[i].type \in Range(RuleTypes)
  /\ \A i, j \in 1..Len(flags) :
       i < j => RuleIndex(flags[i].type) < RuleIndex(flags[j].type)

\* C26: after enrichWithRisks each record's risks are the flags
\* evaluateAgentRisks returns for it, one per rule at most and in rule order;
\* details is the records' flags in agent order followed by the scan-level
\* flags, framework-sprawl before high-agent-count; each severity count is
\* the number of flags of that severity in details, so the four counts add
\* up to the length of details.
C26_RiskSummaryConsistent ==
  pc = "riskDone" =>
    LET details == result.risks.details
        perRecord == RecordFlags(agentMap)
        scanLevel == SubSeq(details, Len(perRecord) + 1, Len(details))
    IN /\ \A i \in 1..Len(agentMap) :
            /\ agentMap[i].risks = evaluateAgentRisks(agentMap[i])
            /\ InRuleOrder(agentMap[i].risks)
       /\ Len(details) >= Len(perRecord)
       /\ SubSeq(details, 1, Len(perRecord)) = perRecord
       /\ scanLevel \in {<<>>,
                          <<RiskFlag("medium", "framework-sprawl")>>,
                          <<RiskFlag("high", "high-agent-count")>>,
                          <<RiskFlag("medium", "framework-sprawl"),
                            RiskFlag("high", "high-agent-count")>>}
       /\ \A sev \in {"critical", "high", "medium", "low"} :
            result.risks[sev] = FlagsOfSeverity(details, sev)
       /\ result.risks.critical + result.risks.high + result.risks.medium
            + result.risks.low = Len(details)

C26_Witness ==
  /\ pc = "riskDone"
  /\ \E i \in 1..Len(agentMap) : Len(agentMap[i].risks) = 3
  /\ \E i \in 1..Len(agentMap) : agentMap[i].risks = <<>>
  /\ Len(result.risks.details) = Len(RecordFlags(agentMap)) + 2
  /\ result.risks.low > 1

\* the evidence a record was created with: what the fold-in did not add
CreationEvidence(rec) ==
  SelectSeq(rec.evidence, LAMBDA e : e.type \notin {"dependency", "env_var"})

\* the confidence a record was created with: 0.7 for a record of a
\* configuration file, the per-file aggregate for a record of a source file
CreationConfidence(rec) ==
  IF \E i \in 1..Len(rec.evidence) : rec.evidence[i].type = "config_file"
  THEN 700
  ELSE calculateConfidence(CreationEvidence(rec))

\* C27: in the result the confidence of a record is
\* min(1.0, c0 + half the contributions of its dependency evidence
\*             + 0.05 per env_var evidence item),
\* c0 the confidence it was created with; the fold-in does not aggregate the
\* evidence list anew.
C27_FinalConfidence ==
  pc = "done" =>
    \A k \in 1..Len(result.agents) :
      LET rec == result.agents[k]
          total == CreationConfidence(rec) + HalfDependencySum(rec.evidence)
                   + 50 * Len(EnvEvidenceOf(rec))
      IN rec.confidence = (IF total > 1000 THEN 1000 ELSE total)

\* a record of one source category with dependency and env_var evidence
\* folded in: below the cap, and not the aggregate of its evidence list
C27_Witness ==
  /\ pc = "done"
  /\ \E k \in 1..Len(result.agents) :
       LET rec == result.agents[k]
       IN /\ HasEvidenceOfType(rec, "dependency")
          /\ HasEvidenceOfType(rec, "env_var")
          /\ Cardinality({e.type : e \in Range(CreationEvidence(rec))}) = 1
          /\ rec.confidence < 1000
          /\ rec.confidence # calculateConfidence(rec.evidence)

\* the number of notifications with the given phase
NotifiedTimes(phase) ==
  Cardinality({n \in 1..Len(notifications) : notifications[n].phase = phase})

\* C28: a scanLocal run ends, whatever the outcome of each stat, read and
\* revision-history query: once started it reaches the state where the
\* ScanResult is returned, it notifies phase complete exactly once, and the
\* file loop moves from each candidate file to the next, never back.
C28_ScanTerminates ==
  /\ (pc = "discovering") ~> (pc = "done")
  /\ [](NotifiedTimes("complete") <= 1)
  /\ [](pc = "done" => /\ result # NoResult
                        /\ NotifiedTimes("complete") = 1
                        /\ idx = Len(files) + 1
                        /\ touched = {files[k].path : k \in 1..Len(files)})
  /\ [][idx' # idx => (idx <= Len(files) /\ idx' = idx + 1)]_vars

\* a finished scan whose files include one that cannot be stat'ed, one that
\* cannot be read, and an agent file whose revision-history query fails
C28_Witness ==
  /\ pc = "done"
  /\ inRepo
  /\ \E k \in 1..Len(files) : ~files[k].statOk
  /\ \E k \in 1..Len(files) : files[k].statOk /\ ~files[k].readOk
  /\ blameQueries # <<>>
  /\ \E k \in 1..Len(blameQueries) : ~FileAt(blameQueries[k]).log.ok
  /\ NotifiedTimes("complete") = 1

\* the notification emitted last
Latest(notes) == notes[Len(notes)]

\* positions of the notifications a step emits
Emitted == (Len(notifications) + 1)..Len(notifications')

\* C29: in every progress notification of a scanLocal run filesScanned is at
\* most filesDiscovered and agentsFound is the size of the registry at that
\* moment (the first notification of a step carries the size before the step,
\* each later one at most one record more, the last one the size after it);
\* neither counter decreases from one notification to the next; a file skipped
\* by the stat or size check leaves filesScanned as it was; and the 'complete'
\* notification carries summary.totalAgents
C29_ProgressCounters ==
  /\ [](pc \notin {"idle", "threw"} => progress.agentsFound = Len(agentMap))
  /\ [][/\ SubSeq(notifications', 1, Len(notifications)) = notifications
        /\ \A n \in Emitted :
              /\ notifications'[n].filesScanned <= notifications'[n].filesDiscovered
              /\ notifications'[n].agentsFound >= Len(agentMap)
              /\ notifications'[n].agentsFound <= Len(agentMap')
              /\ n > 1 =>
                   /\ notifications'[n].filesScanned >= notifications'[n - 1].filesScanned
                   /\ notifications'[n].agentsFound >= notifications'[n - 1].agentsFound
                   /\ notifications'[n].agentsFound <= notifications'[n - 1].agentsFound + 1
        /\ Emitted # {} =>
              /\ notifications'[Len(notifications) + 1].agentsFound = Len(agentMap)
              /\ Latest(notifications').agentsFound = Len(agentMap')
        /\ (pc = "scanning" /\ idx' = idx + 1
              /\ (~files[idx].statOk \/ files[idx].size > MAX_FILE_SIZE)) =>
              /\ progress'.filesScanned = progress.filesScanned
              /\ Latest(notifications').filesScanned = progress.filesScanned
        /\ (pc = "scanning" /\ idx' = idx + 1
              /\ files[idx].statOk /\ files[idx].size <= MAX_FILE_SIZE) =>
              Latest(notifications').filesScanned = progress.filesScanned + 1
        /\ (pc' = "done" /\ pc # "done") =>
              /\ Latest(notifications').phase = "complete"
              /\ Latest(notifications').agentsFound = result'.summary.totalAgents
              /\ NotifiedTimes("complete") = 0]_vars

\* a finished run that skipped a file, so that 'complete' reports fewer files
\* scanned than discovered, and that found two records in one file
C29_Witness ==
  /\ pc = "done"
  /\ Latest(notifications).phase = "complete"
  /\ Latest(notifications).filesScanned < Latest(notifications).filesDiscovered
  /\ Latest(notifications).filesScanned >= 1
  /\ result.summary.totalAgents >= 2
  /\ \E n \in 2..Len(notifications) :
        /\ notifications[n].currentFile = notifications[n - 1].currentFile
        /\ notifications[n].agentsFound = notifications[n - 1].agentsFound + 1
        /\ n < Len(notifications)
        /\ notifications[n + 1].currentFile = notifications[n].currentFile
        /\ notifications[n + 1].agentsFound = notifications[n].agentsFound + 1

\* the confidence a source detection would have after the fold-in of the
\* dependency and environment evidence of the scan
LiftedConfidence(detection) ==
  LET agent == [framework |-> detection.framework, evidence |-> detection.evidence,
                confidence |-> detection.totalConfidence]
      withDeps == AfterDependencies(agent,
                    ItemsAt(dependencyEvidence,
                            DueDependencies(agent, dependencyEvidence), 1))
  IN AfterEnvVars(withDeps,
                  ItemsAt(envEvidence, DueEnvVars(withDeps, envEvidence), 1)).confidence

\* the detections of the candidate file at position k that miss the threshold
BelowThreshold(k) ==
  {d \in Range(Analyses(files[k]).analysis.detections) :
     ~MeetsThreshold(d.totalConfidence, options.confidenceThreshold)}

\* C30: the dependency and the environment fold-in leave the sequence of
\* (framework, file path) keys of the registry as the file pass left it, and a
\* source detection whose aggregate is below the threshold has no record in
\* the result, whatever the fold-in would have added to it.
C30_FoldInKeepsKeys ==
  /\ [][(pc \in {"scanning", "foldEnv"} /\ pc' \in {"foldEnv", "folded"}) =>
          /\ Len(agentMap') = Len(agentMap)
          /\ \A i \in 1..Len(agentMap) : PairOf(agentMap'[i]) = PairOf(agentMap[i])]_vars
  /\ [](pc = "done" =>
          \A k \in 1..Len(files) : \A d \in BelowThreshold(k) :
             <<d.framework, files[k].path>> \notin KeysOf(result.agents))

\* a finished scan with a detection below the threshold that the fold-in
\* would have lifted to it, and with a record whose confidence the fold-in
\* did raise
C30_Witness ==
  /\ pc = "done"
  /\ \E k \in 1..Len(files) : \E d \in BelowThreshold(k) :
        /\ files[k].statOk /\ files[k].readOk /\ files[k].size <= MAX_FILE_SIZE
        /\ MeetsThreshold(LiftedConfidence(d), options.confidenceThreshold)
        /\ <<d.framework, files[k].path>> \notin KeysOf(result.agents)
  /\ \E i \in 1..Len(result.agents) :
        HasEvidenceOfType(result.agents[i], "dependency")
        \/ HasEvidenceOfType(result.agents[i], "env_var")

====
